---- MODULE Spec2Model ----
(***************************************************************************)
(* Model of the keyframe operators of "Psycho's Helpers"                   *)
(* (src/unnamed/part_000, and the earlier variant                          *)
(* src/copy_bone_keyframes_plugin2.py): copy_bone_keyframes,               *)
(* copy_all_axes_keyframes, flip_keyframe_axis, remap_all_bones and        *)
(* swap_keyframes, acting on the F-Curves of the active Action.            *)
(*                                                                         *)
(* Host (bpy) calls the operators make are modelled by what the Blender    *)
(* Python API documents for them, with frames and values as integers:      *)
(*   keyframe_points.insert(frame, value)  adds a point in time order, or  *)
(*       overwrites the value of the point already at that frame, and      *)
(*       (no 'FAST' option given) recalculates the curve's handles;        *)
(*   keyframe_points.clear()               removes every point;            *)
(*   fcurves.new(data_path, index)         appends an empty F-Curve;       *)
(*   fcurve.update()                       sorts the points by time and    *)
(*       recalculates the handles.                                         *)
(* Handle recalculation moves only handles of an automatic type; the       *)
(* arithmetic of an automatic handle is abstracted (see auto_delta).       *)
(* Initial curves have their automatic handles where the recalculation     *)
(* puts them, as the host leaves them after any edit.                      *)
(***************************************************************************)
EXTENDS Integers, Sequences, FiniteSets, TLC

VARIABLES
    fcurves,    \* obj.animation_data.action.fcurves: sequence of F-Curves
    ctx,        \* context: object, selected_pose_bones, active_pose_bone, animation data
    scene,      \* context.scene: the registered mapping properties
    hist        \* one record per operator invocation so far (ghost)

vars == <<fcurves, ctx, scene, hist>>

----------------------------------------------------------------------------
(* Bounds of the model *)

MaxFrame == 3       \* keyframes lie on frames 1..MaxFrame
MaxValue == 2       \* initial keyframe values lie in -MaxValue..MaxValue
MaxOps == 2         \* flip and swap invocations in one behaviour
MaxCopies == 1      \* copy invocations in one behaviour of SpecCopy

Frames == 1..MaxFrame

\* no bone: bone names are sequences of characters, and no bone has the empty name
None == <<>>

----------------------------------------------------------------------------
(* Bones and data paths.  A bone name is a sequence of characters; the     *)
(* data path f'pose.bones["{name}"].{prop}' is kept as the pair of the two *)
(* parts that vary.                                                        *)

BoneA == <<"A">>
BoneAk == <<"A", "k">>
BoneB == <<"B">>

Bones == {BoneA, BoneAk, BoneB}

data_path(bone_name, prop) == <<bone_name, prop>>

\* the test on the property alone, whatever the bone
startswith_any_bone(path, bone_name) ==
    path[2] = "location"

\* the test on the bone alone, whatever the property
startswith_bone(path, bone_name) ==
    path[1] = bone_name

\* fcurve.data_path.startswith(f'pose.bones["{source_bone.name}"].location'):
\* the closing '"]' of the prefix fixes the whole bone name, and the property
\* must begin with "location" (of a pose bone's properties only location does)
startswith_location(path, bone_name) ==
    /\ path[1] = bone_name
    /\ path[2] = "location"

\* fcurve.data_path.split('.')[-1]
property_name_of(path) == path[2]

transform_properties == <<"location", "rotation_euler", "rotation_quaternion", "scale">>

\* range(3 if prop != 'rotation_quaternion' else 4)
axis_range(prop) == IF prop # "rotation_quaternion" THEN 0..2 ELSE 0..3

----------------------------------------------------------------------------
(* Keyframe points and the host calls on them *)

time_of(kp) == kp.co[1]
value_of(kp) == kp.co[2]

\* Abstraction of the automatic (clamped) handle: flat on the first and the
\* last point and on a local extreme, otherwise along the line through the
\* two neighbours.  It depends on the neighbours' values only.
auto_delta(kps, i) ==
    IF i = 1 \/ i = Len(kps) THEN 0
    ELSE LET a == value_of(kps[i - 1])
             b == value_of(kps[i])
             c == value_of(kps[i + 1])
         IN  IF (a < b /\ b < c) \/ (a > b /\ b > c) THEN c - a ELSE 0

\* Handle recalculation: each handle of type AUTO_CLAMPED is recomputed from
\* the point and its neighbours, a FREE handle stays where it is.
recalc_point(kps, i) ==
    LET kp == kps[i]
        d == auto_delta(kps, i)
    IN  [kp EXCEPT
           !.handle_left = IF kp.handle_left_type = "AUTO_CLAMPED"
                           THEN <<time_of(kp) - 1, value_of(kp) - d>> ELSE @,
           !.handle_right = IF kp.handle_right_type = "AUTO_CLAMPED"
                            THEN <<time_of(kp) + 1, value_of(kp) + d>> ELSE @]

RECURSIVE recalc_upto(_, _)
recalc_upto(kps, n) ==
    IF n = 0 THEN <<>> ELSE Append(recalc_upto(kps, n - 1), recalc_point(kps, n))

handles_recalc(kps) == recalc_upto(kps, Len(kps))

\* the search that finds no point on the frame
index_at_none(kps, frame) == 0

\* index of the point of kps on this frame, 0 when there is none
index_at(kps, frame) ==
    IF \E i \in 1..Len(kps) : time_of(kps[i]) = frame
    THEN CHOOSE i \in 1..Len(kps) :
            /\ time_of(kps[i]) = frame
            /\ \A j \in 1..(i - 1) : time_of(kps[j]) # frame
    ELSE 0

\* the point insert() creates: handles one frame to each side at the same
\* value, automatic handle types, Bezier interpolation
new_point(frame, value) ==
    [co |-> <<frame, value>>,
     handle_left |-> <<frame - 1, value>>,
     handle_right |-> <<frame + 1, value>>,
     interpolation |-> "BEZIER",
     easing |-> "AUTO",
     handle_left_type |-> "AUTO_CLAMPED",
     handle_right_type |-> "AUTO_CLAMPED"]

\* the point put at the end, wherever its frame lies
insert_at_end(kps, pos, kp) == Append(kps, kp)

insert_at(kps, pos, kp) ==
    SubSeq(kps, 1, pos - 1) \o <<kp>> \o SubSeq(kps, pos, Len(kps))

\* keyframe_points.insert(frame, value): [points, index of the point]
keyframe_points_insert(kps, frame, value) ==
    LET at == index_at(kps, frame) IN
    IF at # 0
    THEN \* a point on this frame: its value is overwritten and its handles
         \* move with it; interpolation and handle types are kept
         LET dy == value - value_of(kps[at])
             moved == [kps EXCEPT
                         ![at].co = <<frame, value>>,
                         ![at].handle_left = <<@[1], @[2] + dy>>,
                         ![at].handle_right = <<@[1], @[2] + dy>>]
         IN  [points |-> handles_recalc(moved), index |-> at]
    ELSE LET pos == Cardinality({i \in 1..Len(kps) : time_of(kps[i]) < frame}) + 1
             added == insert_at(kps, pos, new_point(frame, value))
             \* with more than two points the new one takes the interpolation
             \* of the point before it (of the point after it when it is first)
             ipo == IF Len(added) > 2
                    THEN IF pos > 1 THEN added[pos - 1].interpolation
                         ELSE added[pos + 1].interpolation
                    ELSE added[pos].interpolation
             set == [added EXCEPT ![pos].interpolation = ipo]
         IN  [points |-> handles_recalc(set), index |-> pos]

\* a clear that takes no point away
keyframe_points_clear_nothing(kps) == kps

\* keyframe_points.clear()
keyframe_points_clear(kps) == <<>>

RECURSIVE sort_by_time(_)
sort_by_time(kps) ==
    IF Len(kps) <= 1 THEN kps
    ELSE LET rest == sort_by_time(Tail(kps))
             pos == Cardinality({i \in 1..Len(rest) :
                                    time_of(rest[i]) <= time_of(Head(kps))}) + 1
         IN  insert_at(rest, pos, Head(kps))

\* fcurve.update()
fcurve_update(kps) == handles_recalc(sort_by_time(kps))

----------------------------------------------------------------------------
(* The F-Curve collection of the Action *)

\* the lookup that finds nothing
find_fcurve_never(fcs, path, index) == 0

\* the lookup by data path alone
find_fcurve_by_path(fcs, path, index) ==
    IF \E i \in 1..Len(fcs) : fcs[i].data_path = path
    THEN CHOOSE i \in 1..Len(fcs) :
            /\ fcs[i].data_path = path
            /\ \A j \in 1..(i - 1) : fcs[j].data_path # path
    ELSE 0

\* next((fc for fc in action.fcurves if fc.data_path == path and
\*       fc.array_index == index), None): position of the first match, 0 = None
find_fcurve(fcs, path, index) ==
    IF \E i \in 1..Len(fcs) : fcs[i].data_path = path /\ fcs[i].array_index = index
    THEN CHOOSE i \in 1..Len(fcs) :
            /\ fcs[i].data_path = path /\ fcs[i].array_index = index
            /\ \A j \in 1..(i - 1) :
                  ~(fcs[j].data_path = path /\ fcs[j].array_index = index)
    ELSE 0

\* the new F-Curve put in the place of the last one
fcurves_new_in_place(fcs, path, index) ==
    [fcs EXCEPT ![Len(fcs)] =
        [data_path |-> path, array_index |-> index, keyframe_points |-> <<>>]]

\* action.fcurves.new(data_path=path, index=index)
fcurves_new(fcs, path, index) ==
    Append(fcs, [data_path |-> path, array_index |-> index, keyframe_points |-> <<>>])

----------------------------------------------------------------------------
(* Reports and results.  A report is a tuple <<severity, message, ...>>.   *)

result(status, fcs, reports, trace) ==
    [status |-> status, fcurves |-> fcs, reports |-> reports, trace |-> trace]

cancelled(fcs, report) == result("CANCELLED", fcs, <<report>>, <<>>)

\* an uncaught Python exception: the operator ends without a return value
raised(fcs, what) == result("EXCEPTION", fcs, <<<<"ERROR", what>>>>, <<>>)

----------------------------------------------------------------------------
(* copy_bone_keyframes: CopyBoneKeyframesOperator.execute *)

\* the table with the sign of 'Y-' and the axis of 'Z-' wrong
axis_mapping_wrong ==
    ("X+" :> <<0, 1>>) @@ ("X-" :> <<0, -1>>) @@ ("Y+" :> <<1, 1>>) @@
    ("Y-" :> <<1, 1>>) @@ ("Z+" :> <<2, 1>>) @@ ("Z-" :> <<1, -1>>)

\* the dict literal of CopyBoneKeyframesOperator.execute
axis_mapping ==
    ("X+" :> <<0, 1>>) @@ ("X-" :> <<0, -1>>) @@ ("Y+" :> <<1, 1>>) @@
    ("Y-" :> <<1, -1>>) @@ ("Z+" :> <<2, 1>>) @@ ("Z-" :> <<2, -1>>)

\* scaled_value = keyframe.co[1] * scale
unscaled_value_of(keyframe, scale) == keyframe.co[2]
scaled_value_of(keyframe, scale) == keyframe.co[2] * scale

\* if replace_all: target_fcurve.keyframe_points.clear()
clear_always(fcs, t, replace_all) ==
    [fcs EXCEPT ![t].keyframe_points = keyframe_points_clear(@)]
clear_never(fcs, t, replace_all) == fcs
clear_if_replace_all(fcs, t, replace_all) ==
    IF replace_all
    THEN [fcs EXCEPT ![t].keyframe_points = keyframe_points_clear(@)]
    ELSE fcs

\* for keyframe in fcurve.keyframe_points: insert the scaled value in the target
RECURSIVE copy_points(_, _, _, _, _, _)
copy_points(st, t, src_points, k, scale, target_axis_index) ==
    IF k > Len(src_points) THEN st
    ELSE LET keyframe == src_points[k]
             scaled_value == scaled_value_of(keyframe, scale)
             ins == keyframe_points_insert(st.fcurves[t].keyframe_points,
                                           keyframe.co[1], scaled_value)
             next == [fcurves |-> [st.fcurves EXCEPT ![t].keyframe_points = ins.points],
                      reports |-> st.reports
                          \o <<<<"INFO", "Source keyframe", keyframe.co[1],
                                 keyframe.co[2], scaled_value>>,
                               <<"INFO", "Target keyframe", keyframe.co[1],
                                 scaled_value, target_axis_index>>>>]
         IN  copy_points(next, t, src_points, k + 1, scale, target_axis_index)

\* the body of "for fcurve in action.fcurves" for the F-Curve at position i
transfer_fcurve(st, i, source_name, target_name, source_axes, replace_all, mapping) ==
    LET fcs == st.fcurves
        fcurve == fcs[i]
        property_name == property_name_of(fcurve.data_path)
        source_axis_index == fcurve.array_index
    IN
    IF ~startswith_location(fcurve.data_path, source_name) THEN st
    ELSE IF source_axis_index < 0 \/ source_axis_index >= Len(source_axes)
    THEN [st EXCEPT !.reports =
             Append(@, <<"WARNING", "Skipping unexpected axis index", source_axis_index>>)]
    ELSE
    LET target_axis == source_axes[source_axis_index + 1] IN
    IF target_axis \notin DOMAIN mapping
    THEN [st EXCEPT !.reports =
             Append(@, <<"WARNING", "Invalid axis mapping", source_axis_index, target_axis>>)]
    ELSE
    LET target_axis_index == mapping[target_axis][1]
        scale == mapping[target_axis][2]
        mapped == Append(st.reports, <<"INFO", "Mapping", source_axis_index,
                                       target_axis, target_axis_index, scale>>)
        target_path == data_path(target_name, property_name)
        found == find_fcurve(fcs, target_path, target_axis_index)
        fcs1 == IF found = 0 THEN fcurves_new(fcs, target_path, target_axis_index) ELSE fcs
        t == IF found = 0 THEN Len(fcs1) ELSE found
        fcs2 == clear_if_replace_all(fcs1, t, replace_all)
        src_points == fcs2[i].keyframe_points
    IN
    IF src_points = <<>>
    THEN [fcurves |-> fcs2,
          reports |-> Append(mapped, <<"WARNING", "No keyframe data", source_axis_index>>)]
    ELSE copy_points([fcurves |-> fcs2, reports |-> mapped], t, src_points, 1,
                     scale, target_axis_index)

\* the loop left at the first F-Curve that is not taken up or is refused
RECURSIVE transfer_loop_break(_, _, _, _, _, _, _)
transfer_loop_break(st, i, source_name, target_name, source_axes, replace_all, mapping) ==
    IF i > Len(st.fcurves) THEN st
    ELSE LET next == transfer_fcurve(st, i, source_name, target_name, source_axes,
                                     replace_all, mapping)
         IN  IF next.fcurves = st.fcurves THEN next
             ELSE transfer_loop_break(next, i + 1, source_name, target_name,
                                      source_axes, replace_all, mapping)

\* for fcurve in action.fcurves: the collection is walked in order, and an
\* F-Curve appended during the walk is visited too
RECURSIVE transfer_loop(_, _, _, _, _, _, _)
transfer_loop(st, i, source_name, target_name, source_axes, replace_all, mapping) ==
    IF i > Len(st.fcurves) THEN st
    ELSE transfer_loop(
             transfer_fcurve(st, i, source_name, target_name, source_axes,
                             replace_all, mapping),
             i + 1, source_name, target_name, source_axes, replace_all, mapping)

\* source_bone = selected_bones[0] if selected_bones[1] == active_bone else selected_bones[1]
source_bone_of(selected_bones, active_bone) ==
    IF selected_bones[2] = active_bone THEN selected_bones[1] ELSE selected_bones[2]

\* the mapping profile the operator reads from the scene
source_axes_of(sc, use_secondary_mapping) ==
    IF use_secondary_mapping
    THEN <<sc.secondary_x_axis, sc.secondary_y_axis, sc.secondary_z_axis>>
    ELSE <<sc.source_x_axis, sc.source_y_axis, sc.source_z_axis>>

replace_all_of(sc, use_secondary_mapping) ==
    IF use_secondary_mapping
    THEN sc.secondary_replace_all_keyframes
    ELSE sc.replace_all_keyframes

in_selection(bone, selected_bones) ==
    \E i \in 1..Len(selected_bones) : selected_bones[i] = bone

\* the operator taking up the axis it is given only
copy_bone_keyframes_execute_one_axis(fcs, c, sc, axis, use_secondary_mapping) ==
    IF c.object_type # "ARMATURE"
    THEN cancelled(fcs, <<"ERROR", "Active object is not an armature.">>)
    ELSE IF Len(c.selected_pose_bones) # 2
    THEN cancelled(fcs, <<"ERROR", "Select exactly two bones.">>)
    ELSE IF ~in_selection(c.active_pose_bone, c.selected_pose_bones)
    THEN cancelled(fcs, <<"ERROR", "Active bone must be one of the selected bones.">>)
    ELSE IF c.animation = "NO_ANIMATION_DATA"
    THEN raised(fcs, "AttributeError")
    ELSE IF c.animation = "NO_ACTION"
    THEN cancelled(fcs, <<"ERROR", "No animation data found.">>)
    ELSE
    LET source_bone == source_bone_of(c.selected_pose_bones, c.active_pose_bone)
        target_bone == c.active_pose_bone
        done == transfer_loop([fcurves |-> fcs, reports |-> <<>>], 1,
                              source_bone, target_bone,
                              [n \in 1..3 |->
                                  IF axis \in {"", <<"X", "Y", "Z">>[n]}
                                  THEN source_axes_of(sc, use_secondary_mapping)[n]
                                  ELSE "none"],
                              replace_all_of(sc, use_secondary_mapping),
                              axis_mapping)
    IN  result("FINISHED", done.fcurves,
               Append(done.reports, <<"INFO", "Keyframes copied", axis>>), <<>>)

copy_bone_keyframes_execute(fcs, c, sc, axis, use_secondary_mapping) ==
    IF c.object_type # "ARMATURE"
    THEN cancelled(fcs, <<"ERROR", "Active object is not an armature.">>)
    ELSE IF Len(c.selected_pose_bones) # 2
    THEN cancelled(fcs, <<"ERROR", "Select exactly two bones.">>)
    ELSE IF ~in_selection(c.active_pose_bone, c.selected_pose_bones)
    THEN cancelled(fcs, <<"ERROR", "Active bone must be one of the selected bones.">>)
    ELSE IF c.animation = "NO_ANIMATION_DATA"
    THEN raised(fcs, "AttributeError")
    ELSE IF c.animation = "NO_ACTION"
    THEN cancelled(fcs, <<"ERROR", "No animation data found.">>)
    ELSE
    LET source_bone == source_bone_of(c.selected_pose_bones, c.active_pose_bone)
        target_bone == c.active_pose_bone
        done == transfer_loop([fcurves |-> fcs, reports |-> <<>>], 1,
                              source_bone, target_bone,
                              source_axes_of(sc, use_secondary_mapping),
                              replace_all_of(sc, use_secondary_mapping),
                              axis_mapping)
    IN  result("FINISHED", done.fcurves,
               Append(done.reports, <<"INFO", "Keyframes copied", axis>>), <<>>)

----------------------------------------------------------------------------
(* copy_all_axes_keyframes: CopyAllAxesKeyframesOperator.execute *)

\* bpy.ops.object.copy_bone_keyframes(...) called from a script: an operator
\* that reports an ERROR, or that raises, makes the call raise
RECURSIVE copy_all_calls(_, _, _, _, _, _)
copy_all_calls(fcs, c, sc, axes, use_secondary_mapping, reports) ==
    IF axes = <<>> THEN result("FINISHED", fcs, reports, <<>>)
    ELSE LET r == copy_bone_keyframes_execute(fcs, c, sc, Head(axes), use_secondary_mapping)
         IN  IF r.status # "FINISHED"
             THEN result("EXCEPTION", r.fcurves,
                         reports \o r.reports \o <<<<"ERROR", "RuntimeError">>>>, <<>>)
             ELSE copy_all_calls(r.fcurves, c, sc, Tail(axes), use_secondary_mapping,
                                 reports \o r.reports)

copy_all_axes_keyframes_execute(fcs, c, sc, use_secondary_mapping) ==
    IF c.object_type # "ARMATURE"
    THEN cancelled(fcs, <<"ERROR", "Active object is not an armature.">>)
    ELSE IF Len(c.selected_pose_bones) # 2
    THEN cancelled(fcs, <<"ERROR", "Select exactly two bones.">>)
    ELSE IF ~in_selection(c.active_pose_bone, c.selected_pose_bones)
    THEN cancelled(fcs, <<"ERROR", "Active bone must be one of the selected bones.">>)
    ELSE LET r == copy_all_calls(fcs, c, sc, <<"X", "Y", "Z">>, use_secondary_mapping, <<>>)
         IN  IF r.status # "FINISHED" THEN r
             ELSE [r EXCEPT !.reports = Append(@, <<"INFO", "Keyframes for all axes copied">>)]

----------------------------------------------------------------------------
(* flip_keyframe_axis: FlipKeyframeAxisOperator.execute *)

\* kp.co[1] *= -1; kp.handle_left[1] *= -1; kp.handle_right[1] *= -1
\* the loop body without the right handle
flip_point_no_right_handle(kp) ==
    [kp EXCEPT !.co = <<@[1], @[2] * (-1)>>,
               !.handle_left = <<@[1], @[2] * (-1)>>]

\* the loop body that makes the ordinates negative instead of negating them
flip_point_downward(kp) ==
    [kp EXCEPT !.co = <<@[1], IF @[2] > 0 THEN @[2] * (-1) ELSE @[2]>>,
               !.handle_left = <<@[1], IF @[2] > 0 THEN @[2] * (-1) ELSE @[2]>>,
               !.handle_right = <<@[1], IF @[2] > 0 THEN @[2] * (-1) ELSE @[2]>>]

\* kp.co[1] *= -1; kp.handle_left[1] *= -1; kp.handle_right[1] *= -1
flip_point(kp) ==
    [kp EXCEPT !.co = <<@[1], @[2] * (-1)>>,
               !.handle_left = <<@[1], @[2] * (-1)>>,
               !.handle_right = <<@[1], @[2] * (-1)>>]

flip_keyframe_axis_execute(fcs, c, property, axis) ==
    IF c.object_type # "ARMATURE"
    THEN cancelled(fcs, <<"ERROR", "Active object is not an armature.">>)
    ELSE IF c.active_pose_bone = None
    THEN cancelled(fcs, <<"ERROR", "No active pose bone.">>)
    ELSE IF c.animation # "ACTION"
    THEN cancelled(fcs, <<"ERROR", "No action found on this object.">>)
    ELSE
    LET path == data_path(c.active_pose_bone, property)
        f == find_fcurve(fcs, path, axis)
    IN  IF f = 0
        THEN cancelled(fcs, <<"WARNING", "No keyframes found", property, axis>>)
        ELSE LET flipped == [k \in 1..Len(fcs[f].keyframe_points) |->
                                flip_point(fcs[f].keyframe_points[k])]
             IN  result("FINISHED",
                        [fcs EXCEPT ![f].keyframe_points = fcurve_update(flipped)],
                        <<<<"INFO", "Flipped", property, axis, c.active_pose_bone>>>>,
                        <<>>)

----------------------------------------------------------------------------
(* swap_keyframes: SwapKeyframesOperator.execute *)

\* copy_keyframe_data that does not read the easing
copy_keyframe_data_no_easing(kp) ==
    [co |-> kp.co,
     handle_left |-> kp.handle_left,
     handle_right |-> kp.handle_right,
     interpolation |-> kp.interpolation,
     easing |-> "AUTO",
     handle_left_type |-> kp.handle_left_type,
     handle_right_type |-> kp.handle_right_type]

copy_keyframe_data(kp) ==
    [co |-> kp.co,
     handle_left |-> kp.handle_left,
     handle_right |-> kp.handle_right,
     interpolation |-> kp.interpolation,
     easing |-> kp.easing,
     handle_left_type |-> kp.handle_left_type,
     handle_right_type |-> kp.handle_right_type]

\* apply_keyframe_data without the two handle assignments
apply_keyframe_data_no_handles(kp, data) ==
    [kp EXCEPT !.interpolation = data.interpolation,
               !.easing = data.easing,
               !.handle_left_type = data.handle_left_type,
               !.handle_right_type = data.handle_right_type]

apply_keyframe_data(kp, data) ==
    [kp EXCEPT !.handle_left = data.handle_left,
               !.handle_right = data.handle_right,
               !.interpolation = data.interpolation,
               !.easing = data.easing,
               !.handle_left_type = data.handle_left_type,
               !.handle_right_type = data.handle_right_type]

\* [copy_keyframe_data(kp) for kp in fcurve.keyframe_points], logged as a read
snapshot(st, f) ==
    [fcurves |-> st.fcurves,
     trace |-> Append(st.trace, <<"read", st.fcurves[f].data_path,
                                  st.fcurves[f].array_index,
                                  Len(st.fcurves[f].keyframe_points)>>),
     data |-> [k \in 1..Len(st.fcurves[f].keyframe_points) |->
                  copy_keyframe_data(st.fcurves[f].keyframe_points[k])]]

\* fcurve.keyframe_points.clear(), logged
clear_logged(st, f) ==
    [fcurves |-> [st.fcurves EXCEPT ![f].keyframe_points = keyframe_points_clear(@)],
     trace |-> Append(st.trace, <<"clear", st.fcurves[f].data_path,
                                  st.fcurves[f].array_index>>)]

\* for data in datas: kp = fcurve.keyframe_points.insert(data['co'][0], data['co'][1])
\*                    apply_keyframe_data(kp, data)
RECURSIVE insert_datas(_, _, _, _)
insert_datas(st, f, datas, k) ==
    IF k > Len(datas) THEN st
    ELSE LET data == datas[k]
             ins == keyframe_points_insert(st.fcurves[f].keyframe_points,
                                           data.co[1], data.co[2])
             pts == [ins.points EXCEPT ![ins.index] = apply_keyframe_data(@, data)]
         IN  insert_datas(
                 [fcurves |-> [st.fcurves EXCEPT ![f].keyframe_points = pts],
                  trace |-> Append(st.trace, <<"insert", st.fcurves[f].data_path,
                                               st.fcurves[f].array_index, data.co[1]>>)],
                 f, datas, k + 1)

\* the loop body that creates a missing F-Curve instead of skipping
swap_axis_create_missing(st, source_name, target_name, prop, axis_index) ==
    LET source_path == data_path(source_name, prop)
        target_path == data_path(target_name, prop)
        begun == [st EXCEPT !.trace = Append(@, <<"step", prop, axis_index>>)]
        fcs1 == IF find_fcurve(st.fcurves, source_path, axis_index) = 0
                THEN fcurves_new(st.fcurves, source_path, axis_index)
                ELSE st.fcurves
        fcs2 == IF find_fcurve(fcs1, target_path, axis_index) = 0
                THEN fcurves_new(fcs1, target_path, axis_index)
                ELSE fcs1
        source_fcurve == find_fcurve(fcs2, source_path, axis_index)
        target_fcurve == find_fcurve(fcs2, target_path, axis_index)
        s1 == snapshot([begun EXCEPT !.fcurves = fcs2], source_fcurve)
        t1 == snapshot(s1, target_fcurve)
        c1 == clear_logged(t1, source_fcurve)
        c2 == clear_logged(c1, target_fcurve)
        i1 == insert_datas(c2, target_fcurve, s1.data, 1)
    IN  insert_datas(i1, source_fcurve, t1.data, 1)

\* the loop body with the source channel refilled before the target channel is cleared
swap_axis_refill_early(st, source_name, target_name, prop, axis_index) ==
    LET source_path == data_path(source_name, prop)
        target_path == data_path(target_name, prop)
        source_fcurve == find_fcurve(st.fcurves, source_path, axis_index)
        target_fcurve == find_fcurve(st.fcurves, target_path, axis_index)
        begun == [st EXCEPT !.trace = Append(@, <<"step", prop, axis_index>>)]
        \* the first pair of snapshots, taken of whichever F-Curve exists
        s0 == IF source_fcurve # 0 THEN snapshot(begun, source_fcurve)
              ELSE [fcurves |-> begun.fcurves, trace |-> begun.trace, data |-> <<>>]
        t0 == IF target_fcurve # 0 THEN snapshot(s0, target_fcurve)
              ELSE [fcurves |-> s0.fcurves, trace |-> s0.trace, data |-> <<>>]
    IN
    IF source_fcurve = 0 \/ target_fcurve = 0
    THEN [fcurves |-> t0.fcurves, trace |-> Append(t0.trace, <<"skip", prop, axis_index>>)]
    ELSE
    LET s1 == snapshot(t0, source_fcurve)
        source_data == s1.data
        t1 == snapshot(s1, target_fcurve)
        target_data == t1.data
        c1 == clear_logged(t1, source_fcurve)
        i1 == insert_datas(c1, source_fcurve, target_data, 1)
        c2 == clear_logged(i1, target_fcurve)
    IN  insert_datas(c2, target_fcurve, source_data, 1)

\* one pass of the loop body for (prop, axis_index)
swap_axis(st, source_name, target_name, prop, axis_index) ==
    LET source_path == data_path(source_name, prop)
        target_path == data_path(target_name, prop)
        source_fcurve == find_fcurve(st.fcurves, source_path, axis_index)
        target_fcurve == find_fcurve(st.fcurves, target_path, axis_index)
        begun == [st EXCEPT !.trace = Append(@, <<"step", prop, axis_index>>)]
        \* the first pair of snapshots, taken of whichever F-Curve exists
        s0 == IF source_fcurve # 0 THEN snapshot(begun, source_fcurve)
              ELSE [fcurves |-> begun.fcurves, trace |-> begun.trace, data |-> <<>>]
        t0 == IF target_fcurve # 0 THEN snapshot(s0, target_fcurve)
              ELSE [fcurves |-> s0.fcurves, trace |-> s0.trace, data |-> <<>>]
    IN
    IF source_fcurve = 0 \/ target_fcurve = 0
    THEN [fcurves |-> t0.fcurves, trace |-> Append(t0.trace, <<"skip", prop, axis_index>>)]
    ELSE
    LET s1 == snapshot(t0, source_fcurve)
        source_data == s1.data
        t1 == snapshot(s1, target_fcurve)
        target_data == t1.data
        c1 == clear_logged(t1, source_fcurve)
        c2 == clear_logged(c1, target_fcurve)
        i1 == insert_datas(c2, target_fcurve, source_data, 1)
    IN  insert_datas(i1, source_fcurve, target_data, 1)

\* the (prop, axis_index) pairs in the order the two nested loops visit them:
\* for prop in transform_properties: for axis_index in range(3 or 4)
RECURSIVE swap_targets(_)
swap_targets(p) ==
    IF p > Len(transform_properties) THEN <<>>
    ELSE LET prop == transform_properties[p]
         IN  [i \in 1..Cardinality(axis_range(prop)) |-> <<prop, i - 1>>]
                 \o swap_targets(p + 1)

\* the nested loops: loop.todo is what the iteration has still to visit,
\* loop.at the Action (and the event log) so far
RECURSIVE swap_loop(_, _, _)
swap_loop(loop, source_name, target_name) ==
    IF loop.todo = <<>> THEN loop.at
    ELSE swap_loop([at |-> swap_axis(loop.at, source_name, target_name,
                                     Head(loop.todo)[1], Head(loop.todo)[2]),
                    todo |-> Tail(loop.todo)],
                   source_name, target_name)

swap_keyframes_execute(fcs, c) ==
    IF c.object_type # "ARMATURE"
    THEN cancelled(fcs, <<"ERROR", "Active object is not an armature.">>)
    ELSE IF Len(c.selected_pose_bones) # 2
    THEN cancelled(fcs, <<"ERROR", "Select exactly two bones.">>)
    ELSE IF ~in_selection(c.active_pose_bone, c.selected_pose_bones)
    THEN cancelled(fcs, <<"ERROR", "Active bone must be one of the selected bones.">>)
    ELSE IF c.animation # "ACTION"
    THEN cancelled(fcs, <<"ERROR", "No animation data found.">>)
    ELSE
    LET source_bone == source_bone_of(c.selected_pose_bones, c.active_pose_bone)
        target_bone == c.active_pose_bone
        done == swap_loop([at |-> [fcurves |-> fcs, trace |-> <<>>],
                           todo |-> swap_targets(1)],
                          source_bone, target_bone)
    IN  result("FINISHED", done.fcurves,
               <<<<"INFO", "Swapped keyframes", source_bone, target_bone>>>>,
               done.trace)

----------------------------------------------------------------------------
(* remap_all_bones: RemapAllBonesOperator.execute *)

\* the table with an entry for a label that is not an axis label
remap_axis_mapping_lenient ==
    ("X+" :> <<0, 1>>) @@ ("X-" :> <<0, -1>>) @@ ("Y+" :> <<1, 1>>) @@
    ("Y-" :> <<1, -1>>) @@ ("Z+" :> <<2, 1>>) @@ ("Z-" :> <<2, -1>>) @@
    ("W" :> <<1, 1>>)

\* the dict literal of RemapAllBonesOperator.execute
remap_axis_mapping ==
    ("X+" :> <<0, 1>>) @@ ("X-" :> <<0, -1>>) @@ ("Y+" :> <<1, 1>>) @@
    ("Y-" :> <<1, -1>>) @@ ("Z+" :> <<2, 1>>) @@ ("Z-" :> <<2, -1>>)

\* name.endswith(suffix)
endswith(name, suffix) ==
    /\ Len(suffix) <= Len(name)
    /\ SubSeq(name, Len(name) - Len(suffix) + 1, Len(name)) = suffix

\* the name without its last len(suffix) characters, an empty suffix
\* taking none away
strip_suffix_whole(name, suffix) ==
    SubSeq(name, 1, Len(name) - Len(suffix))

\* name[:-len(suffix)]: the slice [:-0] is [:0], the empty string
strip_suffix(name, suffix) ==
    IF Len(suffix) = 0 THEN <<>>
    ELSE SubSeq(name, 1, Len(name) - Len(suffix))

\* keyword in name
is_substring(keyword, name) ==
    \E i \in 0..(Len(name) - Len(keyword)) :
        SubSeq(name, i + 1, i + Len(keyword)) = keyword

\* the pairing loop without the test that the base bone is selected
RECURSIVE bone_pairs_unselected(_, _, _, _)
bone_pairs_unselected(c, primary_suffix, k, pairs) ==
    IF k > Len(c.selected_pose_bones) THEN pairs
    ELSE LET bone == c.selected_pose_bones[k]
             base_name == strip_suffix(bone, primary_suffix)
         IN  IF endswith(bone, primary_suffix) /\ base_name \in c.pose_bones
             THEN bone_pairs_unselected(c, primary_suffix, k + 1,
                                        Append(pairs, <<base_name, bone>>))
             ELSE bone_pairs_unselected(c, primary_suffix, k + 1, pairs)

\* the pairing loop putting each new pair before the others
RECURSIVE bone_pairs_prepending(_, _, _, _)
bone_pairs_prepending(c, primary_suffix, k, pairs) ==
    IF k > Len(c.selected_pose_bones) THEN pairs
    ELSE LET bone == c.selected_pose_bones[k]
             base_name == strip_suffix(bone, primary_suffix)
         IN  IF /\ endswith(bone, primary_suffix)
                /\ base_name \in c.pose_bones
                /\ in_selection(base_name, c.selected_pose_bones)
             THEN bone_pairs_prepending(c, primary_suffix, k + 1,
                                        <<<<base_name, bone>>>> \o pairs)
             ELSE bone_pairs_prepending(c, primary_suffix, k + 1, pairs)

\* the pairing loop over selected_bones, from position k on
RECURSIVE bone_pairs(_, _, _, _)
bone_pairs(c, primary_suffix, k, pairs) ==
    IF k > Len(c.selected_pose_bones) THEN pairs
    ELSE LET bone == c.selected_pose_bones[k]
             base_name == strip_suffix(bone, primary_suffix)
         IN  IF /\ endswith(bone, primary_suffix)
                /\ base_name \in c.pose_bones
                /\ in_selection(base_name, c.selected_pose_bones)
             THEN bone_pairs(c, primary_suffix, k + 1, Append(pairs, <<base_name, bone>>))
             ELSE bone_pairs(c, primary_suffix, k + 1, pairs)

\* for source_bone, target_bone in bone_pairs, from position k on
RECURSIVE remap_pairs(_, _, _, _, _)
remap_pairs(st, c, sc, pairs, k) ==
    IF k > Len(pairs)
    THEN result("FINISHED", st.fcurves,
                Append(st.reports, <<"INFO", "Remap All completed successfully.">>),
                st.trace)
    ELSE
    LET source_bone == pairs[k][1]
        target_bone == pairs[k][2]
        secondary == is_substring(sc.secondary_mapper, source_bone)
    IN
    IF c.animation = "NO_ANIMATION_DATA"
    THEN result("EXCEPTION", st.fcurves,
                Append(st.reports, <<"ERROR", "AttributeError">>), st.trace)
    ELSE IF c.animation = "NO_ACTION"
    THEN result("CANCELLED", st.fcurves,
                Append(st.reports, <<"ERROR", "No animation data found.">>), st.trace)
    ELSE
    LET done == transfer_loop([fcurves |-> st.fcurves, reports |-> st.reports], 1,
                              source_bone, target_bone,
                              source_axes_of(sc, secondary),
                              replace_all_of(sc, secondary),
                              remap_axis_mapping)
    IN  remap_pairs([fcurves |-> done.fcurves, reports |-> done.reports,
                     trace |-> Append(st.trace, <<"pair", source_bone, target_bone,
                                                  secondary>>)],
                    c, sc, pairs, k + 1)

\* the operator without the test for an empty list of pairs
remap_all_bones_execute_unchecked(fcs, c, sc) ==
    IF c.object_type # "ARMATURE"
    THEN cancelled(fcs, <<"ERROR", "Active object is not an armature.">>)
    ELSE IF Len(c.selected_pose_bones) = 0
    THEN cancelled(fcs, <<"ERROR", "No bones selected.">>)
    ELSE remap_pairs([fcurves |-> fcs, reports |-> <<>>, trace |-> <<>>],
                     c, sc, bone_pairs(c, sc.primary_suffix, 1, <<>>), 1)

remap_all_bones_execute(fcs, c, sc) ==
    IF c.object_type # "ARMATURE"
    THEN cancelled(fcs, <<"ERROR", "Active object is not an armature.">>)
    ELSE IF Len(c.selected_pose_bones) = 0
    THEN cancelled(fcs, <<"ERROR", "No bones selected.">>)
    ELSE LET pairs == bone_pairs(c, sc.primary_suffix, 1, <<>>)
         IN  IF pairs = <<>>
             THEN cancelled(fcs, <<"WARNING", "No valid bone pairs found.">>)
             ELSE remap_pairs([fcurves |-> fcs, reports |-> <<>>, trace |-> <<>>],
                              c, sc, pairs, 1)

----------------------------------------------------------------------------
(* Initial Actions.  An F-Curve is named by its slot <<bone, property,     *)
(* index>>; the points of a slot are fixed by the bone's layout (which     *)
(* frames are keyed on which axis) and style (handle types, interpolation).*)
(* Every curve starts as the host keeps it: sorted by time, one point per  *)
(* frame, automatic handles calculated.                                    *)

bone_no(b) == CASE b = BoneA -> 0 [] b = BoneAk -> 1 [] b = BoneB -> 2 [] OTHER -> 3

prop_no(p) == CASE p = "location" -> 1 [] p = "rotation_euler" -> 2
                [] p = "rotation_quaternion" -> 3 [] OTHER -> 4

slot_rank(s) == bone_no(s[1]) * 100 + prop_no(s[2]) * 10 + s[3]

seed_of(s) == 6 * bone_no(s[1]) + prop_no(s[2]) + 2 * s[3]

value_at(seed, t) == ((seed + 2 * t) % (2 * MaxValue + 1)) - MaxValue

Layouts == 1..3
Styles == {"auto", "free", "alternate", "mixed"}

layout_times(layout, index) ==
    CASE layout = 1 -> Frames
      [] layout = 2 -> (CASE index = 0 -> {1, MaxFrame} [] index = 1 -> {}
                          [] OTHER -> {MaxFrame})
      [] OTHER -> (CASE index = 0 -> {2} [] index = 1 -> {1, 2}
                     [] OTHER -> Frames \ {1})

init_point(t, v, style) ==
    IF style = "free" \/ (style = "alternate" /\ t % 2 = 0)
                      \/ (style = "mixed" /\ t % 2 = 1)
    THEN [co |-> <<t, v>>,
          handle_left |-> <<t - 1, v + 1>>,
          handle_right |-> <<t + 2, v - 1>>,
          interpolation |-> "LINEAR",
          easing |-> "EASE_IN",
          handle_left_type |-> "FREE",
          handle_right_type |-> "FREE"]
    ELSE IF style = "alternate"
    THEN [co |-> <<t, v>>,
          handle_left |-> <<t - 2, v - 1>>,
          handle_right |-> <<t + 1, v>>,
          interpolation |-> "CONSTANT",
          easing |-> "EASE_OUT",
          handle_left_type |-> "FREE",
          handle_right_type |-> "AUTO_CLAMPED"]
    ELSE new_point(t, v)

sorted_seq(S, rank(_)) ==
    [i \in 1..Cardinality(S) |->
        CHOOSE x \in S : Cardinality({y \in S : rank(y) < rank(x)}) = i - 1]

identity(x) == x

init_fcurve(slot, layout, style) ==
    LET times == sorted_seq(layout_times(layout, slot[3]), identity)
    IN  [data_path |-> data_path(slot[1], slot[2]),
         array_index |-> slot[3],
         keyframe_points |->
            handles_recalc([i \in 1..Len(times) |->
                init_point(times[i], value_at(seed_of(slot), times[i]), style)])]

reverse(seq) == [i \in 1..Len(seq) |-> seq[Len(seq) + 1 - i]]

\* the Action with the F-Curves `present`, in slot order or in reverse
init_fcurves(present, layout_of, style_of, reversed) ==
    LET slots == sorted_seq(present, slot_rank)
        fcs == [i \in 1..Len(slots) |->
                   init_fcurve(slots[i], layout_of[slots[i][1]], style_of[slots[i][1]])]
    IN  IF reversed THEN reverse(fcs) ELSE fcs

location_slots(bone, axes) == {<<bone, "location", i>> : i \in axes}

\* layouts and styles of <<BoneA, BoneB>>; BoneAk is keyed like BoneA
LayoutPairs == {<<1, 1>>, <<2, 1>>, <<1, 2>>, <<3, 2>>}
StylePairs ==
    {<<"auto", "auto">>, <<"free", "auto">>, <<"alternate", "free">>, <<"mixed", "mixed">>}

layout_fn(lp) == (BoneA :> lp[1]) @@ (BoneAk :> lp[1]) @@ (BoneB :> lp[2])
style_fn(sp) == (BoneA :> sp[1]) @@ (BoneAk :> sp[1]) @@ (BoneB :> sp[2])

----------------------------------------------------------------------------
(* Contexts and scene settings *)

context(object_type, selected, active, animation) ==
    [object_type |-> object_type,
     pose_bones |-> Bones,
     selected_pose_bones |-> selected,
     active_pose_bone |-> active,
     animation |-> animation]

\* two bones selected, the active one among them
PairContexts ==
    {context("ARMATURE", <<BoneA, BoneB>>, BoneB, "ACTION"),
     context("ARMATURE", <<BoneA, BoneB>>, BoneA, "ACTION")}

\* the labels of the EnumProperty items, and one string that is none of them
AxisChoices ==
    <<<<"X+", "Y+", "Z+">>, <<"Y-", "Z+", "X-">>, <<"X+", "X-", "Z+">>, <<"Z-", "W", "Y+">>>>

settings(primary, replace_all, secondary, secondary_replace_all, suffix, mapper) ==
    [source_x_axis |-> primary[1],
     source_y_axis |-> primary[2],
     source_z_axis |-> primary[3],
     replace_all_keyframes |-> replace_all,
     secondary_x_axis |-> secondary[1],
     secondary_y_axis |-> secondary[2],
     secondary_z_axis |-> secondary[3],
     secondary_replace_all_keyframes |-> secondary_replace_all,
     primary_mapper |-> <<>>,
     primary_suffix |-> suffix,
     secondary_mapper |-> mapper,
     secondary_suffix |-> <<>>]

\* the values register() gives the scene properties
default_settings ==
    settings(<<"X+", "Y+", "Z+">>, TRUE, <<"X+", "Y+", "Z+">>, TRUE, <<>>, <<>>)

\* the two profiles set differently, so that either can be told from the other
ProfileSettings ==
    {settings(AxisChoices[a], r, AxisChoices[(a % Len(AxisChoices)) + 1], ~r, <<>>, <<>>) :
        a \in 1..Len(AxisChoices), r \in BOOLEAN}

----------------------------------------------------------------------------
(* Operator invocations as actions *)

record(op, args, r) ==
    [op |-> op, args |-> args, status |-> r.status, reports |-> r.reports,
     trace |-> r.trace, before |-> fcurves]

AxisArgs == {"X", "Y", "Z", ""}

copy_bone_keyframes ==
    \E axis \in AxisArgs, use_secondary_mapping \in BOOLEAN :
        LET r == copy_bone_keyframes_execute(fcurves, ctx, scene, axis,
                                             use_secondary_mapping)
        IN  /\ fcurves' = r.fcurves
            /\ hist' = Append(hist, record("copy_bone_keyframes",
                                           <<axis, use_secondary_mapping>>, r))
            /\ UNCHANGED <<ctx, scene>>

copy_all_axes_keyframes ==
    \E use_secondary_mapping \in BOOLEAN :
        LET r == copy_all_axes_keyframes_execute(fcurves, ctx, scene,
                                                 use_secondary_mapping)
        IN  /\ fcurves' = r.fcurves
            /\ hist' = Append(hist, record("copy_all_axes_keyframes",
                                           <<"", use_secondary_mapping>>, r))
            /\ UNCHANGED <<ctx, scene>>

\* the property and axis the panel's nine buttons set
FlipProperties == {"location", "rotation_euler", "scale"}
FlipAxes == 0..2

flip_keyframe_axis ==
    \E property \in FlipProperties, axis \in FlipAxes :
        LET r == flip_keyframe_axis_execute(fcurves, ctx, property, axis)
        IN  /\ fcurves' = r.fcurves
            /\ hist' = Append(hist, record("flip_keyframe_axis", <<property, axis>>, r))
            /\ UNCHANGED <<ctx, scene>>

swap_keyframes ==
    LET r == swap_keyframes_execute(fcurves, ctx)
    IN  /\ fcurves' = r.fcurves
        /\ hist' = Append(hist, record("swap_keyframes", <<>>, r))
        /\ UNCHANGED <<ctx, scene>>

remap_all_bones ==
    LET r == remap_all_bones_execute(fcurves, ctx, scene)
    IN  /\ fcurves' = r.fcurves
        /\ hist' = Append(hist, record("remap_all_bones", <<>>, r))
        /\ UNCHANGED <<ctx, scene>>

----------------------------------------------------------------------------
(* SpecCopy: copies between BoneA and BoneB *)

CopyMasks ==
    {<<{0, 1, 2}, {}>>, <<{0, 1, 2}, {0, 1, 2}>>, <<{0, 1, 2}, {1}>>, <<{0}, {0, 1, 2}>>,
     <<{1, 2}, {}>>, <<{1, 2}, {0, 1, 2}>>, <<{}, {1}>>, <<{0, 2}, {0, 2}>>}

\* besides the location curves: curves the copy has no business with
bystanders ==
    {<<BoneA, "rotation_euler", 0>>, <<BoneB, "scale", 1>>, <<BoneAk, "location", 0>>,
     <<BoneB, "rotation_euler", 2>>, <<BoneA, "scale", 0>>}

\* <<layouts, styles, order of the F-Curves in the action>>
CopyShapes ==
    {<<<<1, 1>>, <<"auto", "auto">>, FALSE>>,
     <<<<2, 1>>, <<"free", "auto">>, TRUE>>,
     <<<<1, 2>>, <<"alternate", "free">>, FALSE>>,
     <<<<3, 2>>, <<"auto", "auto">>, TRUE>>,
     <<<<3, 2>>, <<"free", "auto">>, FALSE>>,
     <<<<1, 1>>, <<"alternate", "free">>, TRUE>>}

InitCopy ==
    /\ \E m \in CopyMasks, sh \in CopyShapes :
          fcurves = init_fcurves(location_slots(BoneA, m[1]) \cup location_slots(BoneB, m[2])
                                     \cup bystanders,
                                 layout_fn(sh[1]), style_fn(sh[2]), sh[3])
    /\ ctx \in PairContexts
    /\ scene \in ProfileSettings
    /\ hist = <<>>

NextCopy ==
    \/ Len(hist) < MaxCopies /\ copy_bone_keyframes
    \/ Len(hist) < MaxCopies /\ copy_all_axes_keyframes

SpecCopy == InitCopy /\ [][NextCopy]_vars

----------------------------------------------------------------------------
(* SpecRemap: remap-all and copy on a selection holding BoneA and BoneAk,  *)
(* the bone named BoneA + "k"                                              *)

RemapContexts ==
    {context("ARMATURE", <<BoneA, BoneAk>>, BoneAk, "ACTION"),
     context("ARMATURE", <<BoneAk, BoneB, BoneA>>, BoneB, "ACTION")}

\* <<primary_suffix, secondary_mapper>>
SuffixAndMapper == {<<<<"k">>, <<>>>>, <<<<"k">>, <<"A">>>>, <<<<"k">>, <<"B">>>>, <<<<>>, <<>>>>}

RemapSettings ==
    {settings(AxisChoices[a], r, AxisChoices[(a % Len(AxisChoices)) + 1], ~r, sm[1], sm[2]) :
        a \in 1..Len(AxisChoices), r \in BOOLEAN, sm \in SuffixAndMapper}

RemapMasks == {<<{0, 1, 2}, {}>>, <<{0, 1, 2}, {0, 1, 2}>>, <<{0, 2}, {1}>>}

InitRemap ==
    /\ \E m \in RemapMasks, lp \in {<<1, 1>>, <<3, 2>>}, sp \in {<<"auto", "auto">>,
                                                                 <<"alternate", "free">>} :
          fcurves = init_fcurves(location_slots(BoneA, m[1]) \cup location_slots(BoneAk, m[2])
                                     \cup (bystanders \ {<<BoneAk, "location", 0>>}),
                                 layout_fn(lp), style_fn(sp), FALSE)
    /\ ctx \in RemapContexts
    /\ scene \in RemapSettings
    /\ hist = <<>>

NextRemap ==
    \/ Len(hist) < MaxCopies /\ remap_all_bones
    \/ Len(hist) < MaxCopies /\ copy_bone_keyframes

SpecRemap == InitRemap /\ [][NextRemap]_vars

----------------------------------------------------------------------------
(* SpecPairing: remap-all on selections that pair, pair twice, or do not   *)
(* pair: the base bone unselected, the base bone absent, one bone alone    *)

BoneBk == <<"B", "k">>
BoneCk == <<"C", "k">>      \* there is no bone "C"

pairing_context(selected) ==
    [context("ARMATURE", selected, selected[1], "ACTION")
        EXCEPT !.pose_bones = Bones \cup {BoneBk, BoneCk}]

PairingContexts ==
    {pairing_context(<<BoneA, BoneAk>>),
     pairing_context(<<BoneAk, BoneB>>),
     pairing_context(<<BoneAk, BoneB, BoneA, BoneBk>>),
     pairing_context(<<BoneCk, BoneA>>),
     pairing_context(<<BoneBk, BoneCk, BoneB>>),
     pairing_context(<<BoneA>>)}

\* <<primary_suffix, secondary_mapper>>
PairingSuffixAndMapper ==
    {<<<<"k">>, <<>>>>, <<<<"k">>, <<"A">>>>, <<<<"k">>, <<"B">>>>, <<<<>>, <<>>>>,
     <<<<"A", "k">>, <<"A">>>>}

PairingSettings ==
    {settings(AxisChoices[a], r, AxisChoices[(a % Len(AxisChoices)) + 1], ~r, sm[1], sm[2]) :
        a \in {1, 3}, r \in BOOLEAN, sm \in PairingSuffixAndMapper}

InitPairing ==
    /\ \E m \in {<<{0, 1, 2}, {}>>, <<{0, 2}, {1}>>}, sp \in {<<"auto", "auto">>,
                                                              <<"alternate", "free">>} :
          fcurves = init_fcurves(location_slots(BoneA, m[1]) \cup location_slots(BoneAk, m[2])
                                     \cup location_slots(BoneB, {0, 1})
                                     \cup (bystanders \ {<<BoneAk, "location", 0>>}),
                                 layout_fn(<<1, 3>>), style_fn(sp), FALSE)
    /\ ctx \in PairingContexts
    /\ scene \in PairingSettings
    /\ hist = <<>>

NextPairing == Len(hist) < MaxCopies /\ remap_all_bones

SpecPairing == InitPairing /\ [][NextPairing]_vars

----------------------------------------------------------------------------
(* SpecSwap: swaps between BoneA and BoneB.  For each transform property  *)
(* a pattern says which of its F-Curves each bone has.                     *)

pattern_slots(prop, pattern) ==
    LET all == axis_range(prop)
        of_a == CASE pattern \in {"both", "only_a"} -> all
                  [] pattern = "partial" -> all \ {2}
                  [] OTHER -> {}
        of_b == CASE pattern \in {"both", "only_b"} -> all
                  [] pattern = "partial" -> all \ {0}
                  [] OTHER -> {}
    IN  {<<BoneA, prop, i>> : i \in of_a} \cup {<<BoneB, prop, i>> : i \in of_b}

\* one pattern for each of transform_properties
SwapPatterns ==
    {<<"both", "both", "both", "both">>,
     <<"both", "only_a", "none", "partial">>,
     <<"partial", "both", "only_b", "none">>,
     <<"none", "partial", "both", "only_a">>,
     <<"only_b", "none", "partial", "both">>}

swap_slots(patterns) ==
    UNION {pattern_slots(transform_properties[p], patterns[p]) :
              p \in 1..Len(transform_properties)}
        \cup {<<BoneAk, "location", 0>>, <<BoneAk, "scale", 2>>}

InitSwap ==
    /\ \E pt \in SwapPatterns, lp \in LayoutPairs, sp \in StylePairs, reversed \in BOOLEAN :
          fcurves = init_fcurves(swap_slots(pt), layout_fn(lp), style_fn(sp), reversed)
    /\ ctx \in PairContexts
    /\ scene = default_settings
    /\ hist = <<>>

NextSwap == Len(hist) < MaxOps /\ swap_keyframes

SpecSwap == InitSwap /\ [][NextSwap]_vars

----------------------------------------------------------------------------
(* SpecFlip: flips of the channels of the active bone, some of which exist *)

InitFlip ==
    /\ \E pt \in SwapPatterns, lp \in LayoutPairs, sp \in StylePairs :
          fcurves = init_fcurves(swap_slots(pt), layout_fn(lp), style_fn(sp), FALSE)
    /\ ctx \in PairContexts
    /\ scene = default_settings
    /\ hist = <<>>

NextFlip == Len(hist) < MaxOps /\ flip_keyframe_axis

SpecFlip == InitFlip /\ [][NextFlip]_vars

----------------------------------------------------------------------------
(* SpecGuards: the five operators called where a check at their head       *)
(* fails, and in two contexts where none does.  An object without an       *)
(* Action has no F-Curves.                                                 *)

GuardContexts ==
    {context("MESH", <<BoneA, BoneB>>, BoneB, "ACTION"),
     context("NONE", <<>>, None, "ACTION"),
     context("ARMATURE", <<>>, None, "ACTION"),
     context("ARMATURE", <<BoneA>>, BoneA, "ACTION"),
     context("ARMATURE", <<BoneA, BoneB, BoneAk>>, BoneB, "ACTION"),
     context("ARMATURE", <<BoneA, BoneB>>, BoneAk, "ACTION"),
     context("ARMATURE", <<BoneA, BoneB>>, None, "ACTION"),
     context("ARMATURE", <<BoneA, BoneB>>, BoneB, "NO_ACTION"),
     context("ARMATURE", <<BoneA, BoneB>>, BoneB, "NO_ANIMATION_DATA"),
     context("ARMATURE", <<BoneA, BoneAk>>, BoneAk, "NO_ACTION"),
     context("ARMATURE", <<BoneA, BoneAk>>, BoneAk, "NO_ANIMATION_DATA"),
     context("ARMATURE", <<BoneA, BoneB>>, BoneB, "ACTION"),
     context("ARMATURE", <<BoneA, BoneAk>>, BoneAk, "ACTION")}

GuardSettings ==
    {settings(<<"X+", "Y+", "Z+">>, r, <<"Y-", "Z+", "X-">>, ~r, <<"k">>, <<"B">>) :
        r \in BOOLEAN}

InitGuards ==
    /\ ctx \in GuardContexts
    /\ \E pt \in {<<"both", "both", "both", "both">>, <<"partial", "both", "only_b", "none">>},
          sp \in {<<"auto", "auto">>, <<"mixed", "mixed">>} :
          fcurves = IF ctx.animation = "ACTION"
                    THEN init_fcurves(swap_slots(pt), layout_fn(<<1, 3>>), style_fn(sp), FALSE)
                    ELSE <<>>
    /\ scene \in GuardSettings
    /\ hist = <<>>

NextGuards ==
    \/ Len(hist) < MaxCopies /\ copy_bone_keyframes
    \/ Len(hist) < MaxCopies /\ copy_all_axes_keyframes
    \/ Len(hist) < MaxCopies /\ flip_keyframe_axis
    \/ Len(hist) < MaxCopies /\ swap_keyframes
    \/ Len(hist) < MaxCopies /\ remap_all_bones

SpecGuards == InitGuards /\ [][NextGuards]_vars

----------------------------------------------------------------------------
(* SpecAll: sequences of the five operators on BoneA and BoneAk, whose     *)
(* F-Curves are keyed on different frames                                  *)

AllContexts ==
    {context("ARMATURE", <<BoneA, BoneAk>>, BoneAk, "ACTION"),
     context("ARMATURE", <<BoneAk, BoneA>>, BoneA, "ACTION")}

AllSettings ==
    {settings(<<"X+", "X-", "Z+">>, r, <<"Y-", "Z+", "X-">>, ~r, <<"k">>, <<"B">>) :
        r \in BOOLEAN}

\* <<location axes of BoneA, location axes of BoneAk, layouts, styles>>
AllShapes ==
    {<<{0, 1, 2}, {1}, <<3, 2>>, <<"auto", "free">>>>,
     <<{0, 2}, {0, 1, 2}, <<2, 3>>, <<"mixed", "auto">>>>}

all_slots(sh) ==
    location_slots(BoneA, sh[1]) \cup location_slots(BoneAk, sh[2])
        \cup {<<BoneA, "rotation_euler", 0>>, <<BoneAk, "rotation_euler", 0>>,
              <<BoneAk, "scale", 2>>, <<BoneB, "location", 0>>}

InitAll ==
    /\ \E sh \in AllShapes :
          fcurves = init_fcurves(all_slots(sh),
                                 (BoneA :> sh[3][1]) @@ (BoneAk :> sh[3][2]) @@ (BoneB :> 1),
                                 (BoneA :> sh[4][1]) @@ (BoneAk :> sh[4][2]) @@ (BoneB :> "auto"),
                                 FALSE)
    /\ ctx \in AllContexts
    /\ scene \in AllSettings
    /\ hist = <<>>

NextAll ==
    \/ Len(hist) < MaxOps /\ copy_bone_keyframes
    \/ Len(hist) < MaxOps /\ copy_all_axes_keyframes
    \/ Len(hist) < MaxOps /\ remap_all_bones
    \/ Len(hist) < MaxOps /\ flip_keyframe_axis
    \/ Len(hist) < MaxOps /\ swap_keyframes

SpecAll == InitAll /\ [][NextAll]_vars

----------------------------------------------------------------------------
(* Vocabulary of the properties.  These definitions read states and the   *)
(* history; none of them is used by the operators above.                   *)

\* the F-Curves after invocation k
After(k) == IF k = Len(hist) THEN fcurves ELSE hist[k + 1].before

Matches(fcs, bone, prop, index) ==
    {n \in 1..Len(fcs) : fcs[n].data_path = <<bone, prop>> /\ fcs[n].array_index = index}

HasCurve(fcs, bone, prop, index) == Matches(fcs, bone, prop, index) # {}

PointsOf(fcs, bone, prop, index) ==
    fcs[CHOOSE n \in Matches(fcs, bone, prop, index) : TRUE].keyframe_points

SeqRange(seq) == {seq[n] : n \in 1..Len(seq)}

TimesOf(kps) == {kps[n].co[1] : n \in 1..Len(kps)}

\* the documented table of the six labels
SixLabels == {"X+", "X-", "Y+", "Y-", "Z+", "Z-"}
LabelAxis(label) == CASE label \in {"X+", "X-"} -> 0
                      [] label \in {"Y+", "Y-"} -> 1
                      [] label \in {"Z+", "Z-"} -> 2
LabelSign(label) == IF label \in {"X+", "Y+", "Z+"} THEN 1 ELSE -1

\* the two bones of a copy or swap: the active bone is the target
TargetBone == ctx.active_pose_bone
SourceBone == CHOOSE b \in SeqRange(ctx.selected_pose_bones) : b # ctx.active_pose_bone

\* the labels and the flag of the profile an invocation of copy used
LabelsOf(h) ==
    IF h.args[2]
    THEN <<scene.secondary_x_axis, scene.secondary_y_axis, scene.secondary_z_axis>>
    ELSE <<scene.source_x_axis, scene.source_y_axis, scene.source_z_axis>>
ReplaceAllOf(h) ==
    IF h.args[2] THEN scene.secondary_replace_all_keyframes
    ELSE scene.replace_all_keyframes

DistinctAxes(labels) ==
    /\ \A i \in 1..3 : labels[i] \in SixLabels
    /\ \A i, j \in 1..3 : i # j => LabelAxis(labels[i]) # LabelAxis(labels[j])

IsCopy(h) == h.op = "copy_bone_keyframes" /\ h.status = "FINISHED"

Coords(kps) == [n \in 1..Len(kps) |-> kps[n].co]
Scaled(kps, sign) == [n \in 1..Len(kps) |-> <<kps[n].co[1], kps[n].co[2] * sign>>]

----------------------------------------------------------------------------
\* C1 -- Transfer value scaling: after a copy from S to T (S # T) whose three
\* labels resolve to three distinct target axes, for every source axis i whose
\* location channel exists and is non-empty, with label resolving to (j, sign),
\* the location channel of T at axis j has, for every source point (t, v), a
\* point at time t with value v * sign.
C1_TransferValueScaling ==
    \A k \in 1..Len(hist) :
        (IsCopy(hist[k]) /\ DistinctAxes(LabelsOf(hist[k]))) =>
        \A i \in 0..2 :
            LET label == LabelsOf(hist[k])[i + 1]
                j == LabelAxis(label)
            IN  (/\ HasCurve(hist[k].before, SourceBone, "location", i)
                 /\ PointsOf(hist[k].before, SourceBone, "location", i) # <<>>) =>
                /\ HasCurve(After(k), TargetBone, "location", j)
                /\ SeqRange(Scaled(PointsOf(hist[k].before, SourceBone, "location", i),
                                   LabelSign(label)))
                      \subseteq SeqRange(Coords(PointsOf(After(k), TargetBone, "location", j)))

\* a copy with distinct axes has carried at least two points with a sign of -1,
\* one of them with a value other than 0, onto another axis
C1_Witness ==
    \E k \in 1..Len(hist) :
        /\ IsCopy(hist[k]) /\ DistinctAxes(LabelsOf(hist[k]))
        /\ \E i \in 0..2 :
              /\ LabelSign(LabelsOf(hist[k])[i + 1]) = -1
              /\ LabelAxis(LabelsOf(hist[k])[i + 1]) # i
              /\ HasCurve(hist[k].before, SourceBone, "location", i)
              /\ Len(PointsOf(hist[k].before, SourceBone, "location", i)) >= 2
              /\ \E p \in SeqRange(PointsOf(hist[k].before, SourceBone, "location", i)) :
                    p.co[2] # 0

----------------------------------------------------------------------------
(* C2 *)

IsRemap(h) == h.op = "remap_all_bones" /\ h.status = "FINISHED"

\* the pairs remap-all processed, as <<source, target, secondary profile used>>
PairsOf(h) == {<<e[2], e[3], e[4]>> : e \in {x \in SeqRange(h.trace) : x[1] = "pair"}}

ProfileLabels(secondary) ==
    IF secondary
    THEN <<scene.secondary_x_axis, scene.secondary_y_axis, scene.secondary_z_axis>>
    ELSE <<scene.source_x_axis, scene.source_y_axis, scene.source_z_axis>>

MappingReports(h) == {r \in SeqRange(h.reports) : r[2] = "Mapping"}
InvalidReports(h) == {r \in SeqRange(h.reports) : r[2] = "Invalid axis mapping"}

\* the source axis is resolved as the table documents, or refused when the
\* label is none of the six
ResolvedAsDocumented(h, i, label) ==
    IF label \in SixLabels
    THEN /\ <<"INFO", "Mapping", i, label, LabelAxis(label), LabelSign(label)>>
               \in MappingReports(h)
         /\ \A r \in InvalidReports(h) : r[3] # i
    ELSE /\ <<"WARNING", "Invalid axis mapping", i, label>> \in InvalidReports(h)
         /\ \A r \in MappingReports(h) : r[3] # i

\* C2 -- Axis remap table: the six labels resolve exactly to X+ -> (0,+1),
\* X- -> (0,-1), Y+ -> (1,+1), Y- -> (1,-1), Z+ -> (2,+1), Z- -> (2,-1), any
\* other label fails to resolve, and copy and remap-all resolve alike: every
\* source axis either is processed with the documented (axis, sign) of its
\* label, or is refused because its label is not one of the six; and what
\* remap-all writes lands on the documented axis with the documented sign.
C2_AxisRemapTable ==
    \A k \in 1..Len(hist) :
        /\ (IsCopy(hist[k]) \/ IsRemap(hist[k])) =>
              /\ \A r \in MappingReports(hist[k]) :
                    /\ r[4] \in SixLabels
                    /\ r[5] = LabelAxis(r[4]) /\ r[6] = LabelSign(r[4])
              /\ \A r \in InvalidReports(hist[k]) : r[4] \notin SixLabels
        /\ IsCopy(hist[k]) =>
              \A i \in 0..2 :
                  HasCurve(hist[k].before, SourceBone, "location", i) =>
                  ResolvedAsDocumented(hist[k], i, LabelsOf(hist[k])[i + 1])
        /\ IsRemap(hist[k]) =>
              \A pr \in PairsOf(hist[k]) : \A i \in 0..2 :
                  LET label == ProfileLabels(pr[3])[i + 1] IN
                  HasCurve(hist[k].before, pr[1], "location", i) =>
                  /\ ResolvedAsDocumented(hist[k], i, label)
                  /\ (/\ DistinctAxes(ProfileLabels(pr[3]))
                      /\ PointsOf(hist[k].before, pr[1], "location", i) # <<>>) =>
                     /\ HasCurve(After(k), pr[2], "location", LabelAxis(label))
                     /\ SeqRange(Scaled(PointsOf(hist[k].before, pr[1], "location", i),
                                        LabelSign(label)))
                           \subseteq SeqRange(Coords(PointsOf(After(k), pr[2], "location",
                                                             LabelAxis(label))))

\* remap-all has resolved two labels of the table, one of them with sign -1,
\* and has refused a label that is not in the table
C2_Witness ==
    \E k \in 1..Len(hist) :
        /\ IsRemap(hist[k])
        /\ PairsOf(hist[k]) # {}
        /\ InvalidReports(hist[k]) # {}
        /\ \E r1, r2 \in MappingReports(hist[k]) : r1[4] # r2[4] /\ r1[6] = -1

\* a copy has resolved three labels, among them one with sign -1
C2_WitnessCopy ==
    \E k \in 1..Len(hist) :
        /\ IsCopy(hist[k])
        /\ \E r1, r2, r3 \in MappingReports(hist[k]) :
              r1[4] # r2[4] /\ r2[4] # r3[4] /\ r1[4] # r3[4] /\ r1[6] = -1

----------------------------------------------------------------------------
\* C3 -- Replace-all set: when replaceAll is true and the three labels resolve
\* to distinct target axes, after a copy every target channel that was written
\* (the channel a source location channel maps to) holds exactly the scaled
\* points of its source channel, and so none of its earlier points at a time
\* the source does not have.
C3_ReplaceAllSet ==
    \A k \in 1..Len(hist) :
        (IsCopy(hist[k]) /\ DistinctAxes(LabelsOf(hist[k])) /\ ReplaceAllOf(hist[k])) =>
        \A i \in 0..2 :
            LET label == LabelsOf(hist[k])[i + 1]
                j == LabelAxis(label)
            IN  HasCurve(hist[k].before, SourceBone, "location", i) =>
                /\ HasCurve(After(k), TargetBone, "location", j)
                /\ Coords(PointsOf(After(k), TargetBone, "location", j))
                      = Scaled(PointsOf(hist[k].before, SourceBone, "location", i),
                               LabelSign(label))

\* a replace-all copy wrote a channel that held a point at a time its source
\* has no point at; the source had points of its own
C3_Witness ==
    \E k \in 1..Len(hist) :
        /\ IsCopy(hist[k]) /\ DistinctAxes(LabelsOf(hist[k])) /\ ReplaceAllOf(hist[k])
        /\ \E i \in 0..2 :
              LET j == LabelAxis(LabelsOf(hist[k])[i + 1]) IN
              /\ HasCurve(hist[k].before, SourceBone, "location", i)
              /\ HasCurve(hist[k].before, TargetBone, "location", j)
              /\ PointsOf(hist[k].before, SourceBone, "location", i) # <<>>
              /\ TimesOf(PointsOf(hist[k].before, TargetBone, "location", j))
                    \ TimesOf(PointsOf(hist[k].before, SourceBone, "location", i)) # {}

----------------------------------------------------------------------------
(* C4 *)

SameMetadata(p, q) ==
    /\ q.interpolation = p.interpolation
    /\ q.easing = p.easing
    /\ q.handle_left_type = p.handle_left_type
    /\ q.handle_right_type = p.handle_right_type

\* the source axes of invocation k that exist and map to target axis j
SourcesOnto(k, j) ==
    {i \in 0..2 : /\ HasCurve(hist[k].before, SourceBone, "location", i)
                  /\ LabelsOf(hist[k])[i + 1] \in SixLabels
                  /\ LabelAxis(LabelsOf(hist[k])[i + 1]) = j}

\* C4 as claimed -- Replace-all unset: every point the target channel held
\* before the copy at a time where the source channel has no point is still
\* there after the copy with the same time, value, handles and interpolation
\* metadata.
C4_Original ==
    \A k \in 1..Len(hist) :
        (IsCopy(hist[k]) /\ ~ReplaceAllOf(hist[k])) =>
        \A j \in 0..2 : \A i \in SourcesOnto(k, j) :
            HasCurve(hist[k].before, TargetBone, "location", j) =>
            \A p \in SeqRange(PointsOf(hist[k].before, TargetBone, "location", j)) :
                p.co[1] \notin TimesOf(PointsOf(hist[k].before, SourceBone, "location", i))
                => p \in SeqRange(PointsOf(After(k), TargetBone, "location", j))

\* C4 as amended -- Replace-all unset: every point a location channel of the
\* target held before the copy, at a time where no source channel mapped onto
\* that channel has a point, is still there after the copy with the same time,
\* value, interpolation, easing and handle types, and with each handle of type
\* FREE where it was (a handle of an automatic type is recalculated by the
\* host's insert).
C4_ReplaceAllUnset ==
    \A k \in 1..Len(hist) :
        (IsCopy(hist[k]) /\ ~ReplaceAllOf(hist[k])) =>
        \A j \in 0..2 :
            HasCurve(hist[k].before, TargetBone, "location", j) =>
            /\ HasCurve(After(k), TargetBone, "location", j)
            /\ \A p \in SeqRange(PointsOf(hist[k].before, TargetBone, "location", j)) :
                  (\A i \in SourcesOnto(k, j) :
                      p.co[1] \notin TimesOf(PointsOf(hist[k].before, SourceBone,
                                                      "location", i)))
                  => \E q \in SeqRange(PointsOf(After(k), TargetBone, "location", j)) :
                        /\ q.co = p.co
                        /\ SameMetadata(p, q)
                        /\ p.handle_left_type = "FREE" => q.handle_left = p.handle_left
                        /\ p.handle_right_type = "FREE" => q.handle_right = p.handle_right

\* a copy without replace-all merged source points into a channel that kept a
\* point of its own, one with a FREE handle, at a time the source has none
C4_Witness ==
    \E k \in 1..Len(hist) :
        /\ IsCopy(hist[k]) /\ ~ReplaceAllOf(hist[k])
        /\ \E j \in 0..2 :
              /\ HasCurve(hist[k].before, TargetBone, "location", j)
              /\ SourcesOnto(k, j) # {}
              /\ \E i \in SourcesOnto(k, j) :
                    PointsOf(hist[k].before, SourceBone, "location", i) # <<>>
              /\ \E p \in SeqRange(PointsOf(hist[k].before, TargetBone, "location", j)) :
                    /\ p.handle_left_type = "FREE"
                    /\ \A i \in SourcesOnto(k, j) :
                          p.co[1] \notin TimesOf(PointsOf(hist[k].before, SourceBone,
                                                          "location", i))

----------------------------------------------------------------------------
(* C5 - C8: swap *)

IsSwap(h) == h.op = "swap_keyframes" /\ h.status = "FINISHED"

\* the (property, axis) combinations swap walks through
SwapTargets ==
    {<<transform_properties[p], i>> :
        p \in 1..Len(transform_properties), i \in 0..3} \ 
    {<<prop, 3>> : prop \in {"location", "rotation_euler", "scale"}}

BothExist(fcs, pa) ==
    HasCurve(fcs, SourceBone, pa[1], pa[2]) /\ HasCurve(fcs, TargetBone, pa[1], pa[2])

\* C5 -- Swap exchange: after swap of bones A and B, for every (property,
\* axis) of {location, rotation_euler, scale} x {0,1,2} and rotation_quaternion
\* x {0,1,2,3} where both channels existed before the call, A's channel holds
\* exactly the points B's channel held (time, value, both handles,
\* interpolation, easing, both handle types) and B's channel exactly those A's
\* held: no point lost, none duplicated.
C5_SwapExchange ==
    \A k \in 1..Len(hist) :
        IsSwap(hist[k]) =>
        \A pa \in SwapTargets :
            BothExist(hist[k].before, pa) =>
            /\ BothExist(After(k), pa)
            /\ PointsOf(After(k), SourceBone, pa[1], pa[2])
                  = PointsOf(hist[k].before, TargetBone, pa[1], pa[2])
            /\ PointsOf(After(k), TargetBone, pa[1], pa[2])
                  = PointsOf(hist[k].before, SourceBone, pa[1], pa[2])

\* a swap has exchanged two channels of different length, whose points have
\* FREE handles on one side and automatic handles on the other
C5_Witness ==
    \E k \in 1..Len(hist) :
        /\ IsSwap(hist[k])
        /\ \E pa \in SwapTargets :
              /\ BothExist(hist[k].before, pa)
              /\ LET a == PointsOf(hist[k].before, SourceBone, pa[1], pa[2])
                     b == PointsOf(hist[k].before, TargetBone, pa[1], pa[2])
                 IN  /\ Len(a) >= 2 /\ Len(b) >= 1 /\ Len(a) # Len(b)
                     /\ \E p \in SeqRange(a) \cup SeqRange(b) :
                           p.handle_left_type = "FREE"
                     /\ \E p \in SeqRange(a) \cup SeqRange(b) :
                           p.handle_left_type = "AUTO_CLAMPED"

\* C6 -- Swap round-trip: applying swap twice to the same two bones restores,
\* for every (property, axis) channel of both bones, the original sequence of
\* points with identical time, value, handles, interpolation, easing and
\* handle types.
C6_SwapRoundTrip ==
    \A k \in 1..(Len(hist) - 1) :
        (IsSwap(hist[k]) /\ IsSwap(hist[k + 1])) =>
        \A bone \in {SourceBone, TargetBone} : \A pa \in SwapTargets :
            /\ HasCurve(After(k + 1), bone, pa[1], pa[2])
                  <=> HasCurve(hist[k].before, bone, pa[1], pa[2])
            /\ HasCurve(hist[k].before, bone, pa[1], pa[2]) =>
                  PointsOf(After(k + 1), bone, pa[1], pa[2])
                      = PointsOf(hist[k].before, bone, pa[1], pa[2])

\* two swaps in a row, the first of which changed a channel
C6_Witness ==
    \E k \in 1..(Len(hist) - 1) :
        /\ IsSwap(hist[k]) /\ IsSwap(hist[k + 1])
        /\ \E pa \in SwapTargets :
              /\ BothExist(hist[k].before, pa)
              /\ PointsOf(hist[k].before, SourceBone, pa[1], pa[2]) # <<>>
              /\ PointsOf(After(k), SourceBone, pa[1], pa[2])
                    # PointsOf(hist[k].before, SourceBone, pa[1], pa[2])

\* C7 -- Swap skip rule: for any (property, axis) where the channel exists on
\* only one of the two bones, or on neither, swap leaves that channel's points
\* unchanged on the bone that has it and creates no channel on the bone that
\* lacks it; the other (property, axis) combinations are still swapped.
C7_SwapSkipRule ==
    \A k \in 1..Len(hist) :
        IsSwap(hist[k]) =>
        \A pa \in SwapTargets :
            IF BothExist(hist[k].before, pa)
            THEN /\ Coords(PointsOf(After(k), SourceBone, pa[1], pa[2]))
                       = Coords(PointsOf(hist[k].before, TargetBone, pa[1], pa[2]))
                 /\ Coords(PointsOf(After(k), TargetBone, pa[1], pa[2]))
                       = Coords(PointsOf(hist[k].before, SourceBone, pa[1], pa[2]))
            ELSE \A bone \in {SourceBone, TargetBone} :
                    IF HasCurve(hist[k].before, bone, pa[1], pa[2])
                    THEN /\ HasCurve(After(k), bone, pa[1], pa[2])
                         /\ PointsOf(After(k), bone, pa[1], pa[2])
                               = PointsOf(hist[k].before, bone, pa[1], pa[2])
                    ELSE ~HasCurve(After(k), bone, pa[1], pa[2])

\* one swap met a channel that only one bone has, with points in it, a
\* combination neither bone has, and a combination it did exchange
C7_Witness ==
    \E k \in 1..Len(hist) :
        /\ IsSwap(hist[k])
        /\ \E pa \in SwapTargets :
              /\ HasCurve(hist[k].before, SourceBone, pa[1], pa[2])
              /\ ~HasCurve(hist[k].before, TargetBone, pa[1], pa[2])
              /\ PointsOf(hist[k].before, SourceBone, pa[1], pa[2]) # <<>>
        /\ \E pa \in SwapTargets :
              /\ ~HasCurve(hist[k].before, SourceBone, pa[1], pa[2])
              /\ ~HasCurve(hist[k].before, TargetBone, pa[1], pa[2])
        /\ \E pa \in SwapTargets :
              /\ BothExist(hist[k].before, pa)
              /\ PointsOf(After(k), SourceBone, pa[1], pa[2])
                    # PointsOf(hist[k].before, SourceBone, pa[1], pa[2])

\* C8 -- Swap ordering: within each (property, axis) step of swap, the
\* snapshots of both channels are completely taken before either channel is
\* cleared, and both channels are cleared before any point is re-inserted; no
\* clear of a channel precedes the read of that channel's points in the same
\* step.
StepStarts(tr) == {n \in 1..Len(tr) : tr[n][1] = "step"}

StepEnd(tr, s) ==
    LET later == {n \in StepStarts(tr) : n > s}
    IN  IF later = {} THEN Len(tr)
        ELSE (CHOOSE n \in later : \A m \in later : n <= m) - 1

IsEvent(e, kind, bone, prop, axis) ==
    e[1] = kind /\ e[2] = data_path(bone, prop) /\ e[3] = axis

C8_SwapOrdering ==
    \A k \in 1..Len(hist) :
        IsSwap(hist[k]) =>
        LET tr == hist[k].trace IN
        \A s \in StepStarts(tr) :
            LET prop == tr[s][2]
                axis == tr[s][3]
                body == (s + 1)..StepEnd(tr, s)
                both == {SourceBone, TargetBone}
            IN  \A n \in body :
                    /\ tr[n][1] = "clear" =>
                          /\ \A bone \in both : \E m \in body :
                                /\ m < n
                                /\ IsEvent(tr[m], "read", bone, prop, axis)
                                /\ tr[m][4] = Len(PointsOf(hist[k].before, bone, prop, axis))
                          /\ \A m \in body : tr[m][1] = "read" => m < n
                    /\ tr[n][1] = "insert" =>
                          /\ \A bone \in both : \E m \in body :
                                m < n /\ IsEvent(tr[m], "clear", bone, prop, axis)
                          /\ \A m \in body : tr[m][1] = "clear" => m < n

\* a step of a swap cleared both channels and re-inserted points into both
C8_Witness ==
    \E k \in 1..Len(hist) :
        /\ IsSwap(hist[k])
        /\ LET tr == hist[k].trace IN
           \E s \in StepStarts(tr) :
               LET body == (s + 1)..StepEnd(tr, s) IN
               \A bone \in {SourceBone, TargetBone} :
                   /\ \E n \in body : IsEvent(tr[n], "clear", bone, tr[s][2], tr[s][3])
                   /\ \E n \in body : IsEvent(tr[n], "insert", bone, tr[s][2], tr[s][3])
                   /\ \E n \in body : IsEvent(tr[n], "read", bone, tr[s][2], tr[s][3])
                                         /\ tr[n][4] >= 2

----------------------------------------------------------------------------
(* C9, C10: flip *)

IsFlip(h) == h.op = "flip_keyframe_axis" /\ h.status = "FINISHED"

\* the position in the action of the channel a flip was asked for
FlippedCurve(h) ==
    find_fcurve(h.before, data_path(ctx.active_pose_bone, h.args[1]), h.args[2])

Negated(co) == <<co[1], 0 - co[2]>>

\* C9 -- Flip effect: flip on an existing channel (bone, property, axis)
\* negates the value, the left-handle ordinate and the right-handle ordinate of
\* every point of that channel, and leaves each point's time, handle
\* abscissas, interpolation, easing and handle types unchanged; the number of
\* points is unchanged and every other channel of the Action is unchanged.
C9_FlipEffect ==
    \A k \in 1..Len(hist) :
        IsFlip(hist[k]) =>
        LET f == FlippedCurve(hist[k])
            old == hist[k].before
            new == After(k)
        IN  /\ f # 0
            /\ Len(new) = Len(old)
            /\ \A j \in 1..Len(old) : j # f => new[j] = old[j]
            /\ new[f].data_path = old[f].data_path
            /\ new[f].array_index = old[f].array_index
            /\ Len(new[f].keyframe_points) = Len(old[f].keyframe_points)
            /\ \A i \in 1..Len(old[f].keyframe_points) :
                  LET p == old[f].keyframe_points[i]
                      q == new[f].keyframe_points[i]
                  IN  /\ q.co = Negated(p.co)
                      /\ q.handle_left = Negated(p.handle_left)
                      /\ q.handle_right = Negated(p.handle_right)
                      /\ q.interpolation = p.interpolation
                      /\ q.easing = p.easing
                      /\ q.handle_left_type = p.handle_left_type
                      /\ q.handle_right_type = p.handle_right_type

\* a flip of a channel of three points, one with FREE and one with automatic
\* handles whose ordinates are not zero and differ from the value
C9_Witness ==
    \E k \in 1..Len(hist) :
        /\ IsFlip(hist[k])
        /\ LET pts == hist[k].before[FlippedCurve(hist[k])].keyframe_points
           IN  /\ Len(pts) >= 3
               /\ \E i \in 1..Len(pts) :
                     /\ pts[i].handle_right_type = "FREE"
                     /\ pts[i].handle_right[2] # 0
                     /\ pts[i].handle_right[2] # pts[i].co[2]
               /\ \E i \in 2..(Len(pts) - 1) :
                     /\ pts[i].handle_left_type = "AUTO_CLAMPED"
                     /\ pts[i].handle_left[2] # 0
                     /\ pts[i].handle_left[2] # pts[i].co[2]

\* C10 -- Flip round-trip: flipping the same channel twice restores the
\* original value, left-handle ordinate and right-handle ordinate of every
\* point, for any of the nine targets {location, rotation_euler, scale} x
\* {0,1,2}.
C10_FlipRoundTrip ==
    \A k \in 1..(Len(hist) - 1) :
        (/\ IsFlip(hist[k]) /\ IsFlip(hist[k + 1])
         /\ hist[k].args = hist[k + 1].args
         /\ hist[k].args[1] \in {"location", "rotation_euler", "scale"}
         /\ hist[k].args[2] \in {0, 1, 2}) =>
        LET f == FlippedCurve(hist[k])
            old == hist[k].before[f].keyframe_points
            new == After(k + 1)[f].keyframe_points
        IN  /\ Len(new) = Len(old)
            /\ \A i \in 1..Len(old) :
                  /\ new[i].co[2] = old[i].co[2]
                  /\ new[i].handle_left[2] = old[i].handle_left[2]
                  /\ new[i].handle_right[2] = old[i].handle_right[2]

\* the same channel flipped twice, with a point above zero in it
C10_Witness ==
    \E k \in 1..(Len(hist) - 1) :
        /\ IsFlip(hist[k]) /\ IsFlip(hist[k + 1])
        /\ hist[k].args = hist[k + 1].args
        /\ LET old == hist[k].before[FlippedCurve(hist[k])].keyframe_points
               mid == After(k)[FlippedCurve(hist[k])].keyframe_points
           IN  /\ Len(old) >= 2
               /\ \E i \in 1..Len(old) : old[i].co[2] > 0 /\ old[i].handle_left[2] > 0
               /\ mid # old

----------------------------------------------------------------------------
(* C11: flip on a missing channel *)

\* a call of op that came back CANCELLED with a report of the given severity
CancelledWith(h, severities) ==
    /\ h.status = "CANCELLED"
    /\ h.reports # <<>>
    /\ \A n \in 1..Len(h.reports) : h.reports[n][1] \in severities

\* C11 -- Flip on a missing channel: when no channel matches (active bone,
\* property, axis), flip reports failure (Cancelled with a diagnostic),
\* changes no point of any channel and creates no channel.
C11_FlipMissingChannel ==
    \A k \in 1..Len(hist) :
        (/\ hist[k].op = "flip_keyframe_axis"
         /\ ~HasCurve(hist[k].before, ctx.active_pose_bone,
                      hist[k].args[1], hist[k].args[2])) =>
        /\ CancelledWith(hist[k], {"WARNING", "ERROR"})
        /\ After(k) = hist[k].before

\* a flip was asked for an axis the active bone has no channel on, while it
\* has channels of the same property on other axes
C11_Witness ==
    \E k \in 1..Len(hist) :
        /\ hist[k].op = "flip_keyframe_axis"
        /\ ~HasCurve(hist[k].before, ctx.active_pose_bone,
                     hist[k].args[1], hist[k].args[2])
        /\ \E i \in 0..2 :
              /\ HasCurve(hist[k].before, ctx.active_pose_bone, hist[k].args[1], i)
              /\ PointsOf(hist[k].before, ctx.active_pose_bone, hist[k].args[1], i) # <<>>

----------------------------------------------------------------------------
(* C12 - C14: pairing and profile selection of remap-all *)

\* a remap-all that got past the checks of the object and of the selection
IsRemapCall(h) ==
    /\ h.op = "remap_all_bones"
    /\ ctx.object_type = "ARMATURE"
    /\ ctx.selected_pose_bones # <<>>

Selected == SeqRange(ctx.selected_pose_bones)

\* the pairs as the rule states them: B ends with the suffix, and the bone
\* named as B without the suffix exists and is selected
RulePairs ==
    {<<S, B>> \in ctx.pose_bones \X Selected :
        S \o scene.primary_suffix = B /\ S \in Selected}

\* the pairs a remap-all took up, read off its log
ObservedPairs(h) == {<<pr[1], pr[2]>> : pr \in PairsOf(h)}

NoErrorIn(h) ==
    /\ h.status # "EXCEPTION"
    /\ \A n \in 1..Len(h.reports) : h.reports[n][1] # "ERROR"

PairsAre(h, pairs) ==
    /\ ObservedPairs(h) = pairs
    /\ NoErrorIn(h)
    /\ pairs # {} => h.status = "FINISHED"

\* the claim as stated: the rule, for whatever suffix is configured
C12_Original ==
    \A k \in 1..Len(hist) : IsRemapCall(hist[k]) => PairsAre(hist[k], RulePairs)

\* C12 -- Pairing rule: remap-all forms the pair (source, target = B) for a
\* selected bone B if and only if the configured suffix is not empty, B's name
\* ends with it, a pose bone whose name is B's name with the suffix removed
\* exists, and that bone is also selected; selected bones that do not satisfy
\* this contribute no pair and raise no error.
C12_PairingRule ==
    \A k \in 1..Len(hist) :
        IsRemapCall(hist[k]) =>
        PairsAre(hist[k], IF scene.primary_suffix = <<>> THEN {} ELSE RulePairs)

\* a remap-all paired two of four selected bones with their bases, or paired
\* one and passed over a selected bone whose base does not exist
C12_Witness ==
    \E k \in 1..Len(hist) :
        /\ IsRemapCall(hist[k])
        /\ scene.primary_suffix # <<>>
        /\ ObservedPairs(hist[k]) # {}
        /\ \E B \in Selected :
              /\ \A pr \in ObservedPairs(hist[k]) : pr[2] # B /\ pr[1] # B
              /\ Len(B) > Len(scene.primary_suffix)
              /\ SubSeq(B, Len(B), Len(B)) = scene.primary_suffix

\* C13 -- No valid pairs: when pairing yields zero pairs, remap-all fails
\* (Cancelled with a diagnostic) and no channel is created, cleared or
\* modified.
C13_NoValidPairs ==
    \A k \in 1..Len(hist) :
        (/\ IsRemapCall(hist[k])
         /\ (scene.primary_suffix = <<>> \/ RulePairs = {})) =>
        /\ CancelledWith(hist[k], {"WARNING", "ERROR"})
        /\ After(k) = hist[k].before

\* a remap-all with a suffix set found no pair, although a selected bone
\* carries the suffix and its base bone has location channels with points
C13_Witness ==
    \E k \in 1..Len(hist) :
        /\ IsRemapCall(hist[k])
        /\ scene.primary_suffix # <<>>
        /\ hist[k].status = "CANCELLED"
        /\ \E S \in ctx.pose_bones :
              /\ S \o scene.primary_suffix \in Selected
              /\ S \notin Selected
              /\ PointsOf(hist[k].before, S, "location", 0) # <<>>

\* keyword occurs in name, for a keyword that is not empty
Occurs(keyword, name) ==
    \E i \in 1..Len(name), j \in 1..Len(name) : SubSeq(name, i, j) = keyword

\* the labels the Mapping and Invalid-axis reports of h carry for source axis i
ReportedLabels(h, i) ==
    {r[4] : r \in {x \in MappingReports(h) \cup InvalidReports(h) : x[3] = i}}

\* the pair pr of h was transferred with the secondary (or the primary) profile
UsedProfile(h, pr, secondary) ==
    /\ pr[3] = secondary
    /\ Cardinality(PairsOf(h)) = 1 =>
          \A i \in 0..2 :
              HasCurve(h.before, pr[1], "location", i) =>
              ReportedLabels(h, i) = {ProfileLabels(secondary)[i + 1]}

\* C14 -- Profile selection in remap-all: for each pair, the secondary
\* profile (secondary axis labels and secondary replace-all flag) is used if
\* the secondary mapper keyword is a non-empty substring of the source bone's
\* name; otherwise, including when the keyword is empty, the primary profile
\* is used.
C14_ProfileSelection ==
    \A k \in 1..Len(hist) :
        IsRemap(hist[k]) =>
        \A pr \in PairsOf(hist[k]) :
            UsedProfile(hist[k], pr,
                        scene.secondary_mapper # <<>>
                            /\ Occurs(scene.secondary_mapper, pr[1]))

\* C14, for a keyword that is not empty: the secondary profile is used for
\* the pairs whose source name contains the keyword, the primary for the rest
C14_NonEmptyKeyword ==
    \A k \in 1..Len(hist) :
        (IsRemap(hist[k]) /\ scene.secondary_mapper # <<>>) =>
        \A pr \in PairsOf(hist[k]) :
            UsedProfile(hist[k], pr, Occurs(scene.secondary_mapper, pr[1]))

\* with the empty keyword every pair is transferred with the secondary profile
C14_EmptyKeyword ==
    \A k \in 1..Len(hist) :
        (IsRemap(hist[k]) /\ scene.secondary_mapper = <<>>) =>
        \A pr \in PairsOf(hist[k]) : UsedProfile(hist[k], pr, TRUE)

\* a remap-all with the empty keyword transferred its one pair, whose source
\* has three location channels, and one with a keyword used both profiles
C14_Witness ==
    \E k \in 1..Len(hist) :
        /\ IsRemap(hist[k])
        /\ \/ /\ scene.secondary_mapper = <<>>
              /\ Cardinality(PairsOf(hist[k])) = 1
              /\ \A pr \in PairsOf(hist[k]) : \A i \in 0..2 :
                    HasCurve(hist[k].before, pr[1], "location", i)
           \/ /\ scene.secondary_mapper # <<>>
              /\ \E p1, p2 \in PairsOf(hist[k]) : p1[3] /\ ~p2[3]

----------------------------------------------------------------------------
(* C15: failed preconditions *)

NotArmature == ctx.object_type # "ARMATURE"
NoAction == ctx.animation # "ACTION"
ActiveNotSelected == ctx.active_pose_bone \notin Selected

\* the precondition of the operator op fails in the context
PreconditionFails(op) ==
    CASE op \in {"copy_bone_keyframes", "copy_all_axes_keyframes", "swap_keyframes"} ->
            NotArmature \/ Len(ctx.selected_pose_bones) # 2 \/ ActiveNotSelected \/ NoAction
      [] op = "flip_keyframe_axis" ->
            NotArmature \/ ctx.active_pose_bone = None \/ NoAction
      [] op = "remap_all_bones" ->
            NotArmature \/ ctx.selected_pose_bones = <<>> \/ NoAction

\* C15 -- Precondition failures abort without mutation: for copy-one-axis,
\* copy-all-axes, flip, swap and remap-all, when the active object is not an
\* armature, the selection count is wrong, the active bone is not in the
\* selection, or the object has no animation data or no active Action, the
\* operation ends Cancelled with an Error-severity diagnostic and no channel
\* is created, cleared or modified.  (Each condition is taken for the
\* operators that depend on it: flip asks for an active bone and no
\* selection, remap-all for a selection that is not empty.)
C15_PreconditionFailures ==
    \A k \in 1..Len(hist) :
        PreconditionFails(hist[k].op) =>
        /\ CancelledWith(hist[k], {"ERROR"})
        /\ After(k) = hist[k].before

\* what the operators do keep of C15: a call whose precondition fails never
\* finishes and leaves the Action as it was
C15_AbortWithoutMutation ==
    \A k \in 1..Len(hist) :
        PreconditionFails(hist[k].op) =>
        /\ hist[k].status \in {"CANCELLED", "EXCEPTION"}
        /\ After(k) = hist[k].before

\* C15 but for the object without animation data, and for copy-all-axes and
\* a remap-all without pairs on an object without an Action
C15_CheckedFailures ==
    \A k \in 1..Len(hist) :
        (/\ PreconditionFails(hist[k].op)
         /\ \/ ~NoAction
            \/ hist[k].op \in {"flip_keyframe_axis", "swap_keyframes"}
            \/ NotArmature
            \/ /\ hist[k].op = "copy_bone_keyframes"
               /\ (ctx.animation = "NO_ACTION" \/ Len(ctx.selected_pose_bones) # 2
                   \/ ActiveNotSelected)
            \/ /\ hist[k].op = "copy_all_axes_keyframes"
               /\ (Len(ctx.selected_pose_bones) # 2 \/ ActiveNotSelected)
            \/ /\ hist[k].op = "remap_all_bones"
               /\ (ctx.selected_pose_bones = <<>>
                   \/ (ctx.animation = "NO_ACTION" /\ RulePairs # {}))) =>
        CancelledWith(hist[k], {"ERROR"})

\* a copy was called on an armature with two bones selected, the active one
\* among them, and no animation data
C15_Witness ==
    \E k \in 1..Len(hist) :
        /\ hist[k].op = "copy_bone_keyframes"
        /\ ~NotArmature /\ Len(ctx.selected_pose_bones) = 2 /\ ~ActiveNotSelected
        /\ ctx.animation = "NO_ANIMATION_DATA"

----------------------------------------------------------------------------
(* C16, C17: axes a copy passes over *)

IsCopyCall(h) == h.op = "copy_bone_keyframes"

SourceAxes(h) == {i \in 0..2 : HasCurve(h.before, SourceBone, "location", i)}

\* the reports of h that name the source axis i
ReportsOn(h, i) ==
    {r \in SeqRange(h.reports) :
        /\ r[2] \in {"Mapping", "Invalid axis mapping", "No keyframe data",
                     "Skipping unexpected axis index"}
        /\ r[3] = i}

\* the source axis i has a label of the table, and no other source axis with
\* a channel has a label for the same target axis
AloneOnTarget(h, i) ==
    /\ LabelsOf(h)[i + 1] \in SixLabels
    /\ \A i2 \in SourceAxes(h) \ {i} :
          LabelsOf(h)[i2 + 1] \in SixLabels =>
          LabelAxis(LabelsOf(h)[i2 + 1]) # LabelAxis(LabelsOf(h)[i + 1])

\* the points of source axis i of call k are in the target channel of its label
CopiedAxis(k, i) ==
    LET label == LabelsOf(hist[k])[i + 1]
        src == PointsOf(hist[k].before, SourceBone, "location", i)
    IN  /\ \E r \in ReportsOn(hist[k], i) : r[2] = "Mapping" /\ r[4] = label
        /\ HasCurve(After(k), TargetBone, "location", LabelAxis(label))
        /\ AloneOnTarget(hist[k], i) =>
              SeqRange(Scaled(src, LabelSign(label)))
                  \subseteq SeqRange(Coords(PointsOf(After(k), TargetBone, "location",
                                                    LabelAxis(label))))

SomeAxesMissing(h) == SourceAxes(h) # {} /\ SourceAxes(h) # {0, 1, 2}

TransferCases(h) ==
    IF IsCopy(h) THEN {<<SourceBone, TargetBone, LabelsOf(h), ReplaceAllOf(h)>>}
    ELSE IF IsRemap(h)
    THEN {<<pr[1], pr[2], ProfileLabels(pr[3]), replace_all_of(scene, pr[3])>> :
             pr \in PairsOf(h)}
    ELSE {}

\* the source axes of a transfer that have a channel and a label in / not in
\* the table
ValidAxes(h, tc) ==
    {i \in 0..2 : HasCurve(h.before, tc[1], "location", i) /\ tc[3][i + 1] \in SixLabels}
InvalidAxes(h, tc) ==
    {i \in 0..2 : HasCurve(h.before, tc[1], "location", i) /\ tc[3][i + 1] \notin SixLabels}

\* C17 -- Invalid axis label is local: when the label configured for one
\* source axis (an axis the source has a channel on) is not one of the six
\* valid labels, the copy skips that axis with a warning, creates or modifies
\* no target channel for it, and still copies the other axes whose labels are
\* valid.  The same in each transfer of remap-all.
C17_InvalidLabelLocal ==
    \A k \in 1..Len(hist) : \A tc \in TransferCases(hist[k]) :
        LET h == hist[k]
            valid == ValidAxes(h, tc)
            invalid == InvalidAxes(h, tc)
        IN  (invalid # {} /\ Cardinality(TransferCases(h)) = 1) =>
            /\ \A i \in invalid :
                  /\ <<"WARNING", "Invalid axis mapping", i, tc[3][i + 1]>>
                        \in SeqRange(h.reports)
                  /\ \A r \in ReportsOn(h, i) : r[2] = "Invalid axis mapping"
            /\ \A j \in 0..2 :
                  (\A i \in valid : LabelAxis(tc[3][i + 1]) # j) =>
                  /\ HasCurve(After(k), tc[2], "location", j)
                        <=> HasCurve(h.before, tc[2], "location", j)
                  /\ HasCurve(h.before, tc[2], "location", j) =>
                        PointsOf(After(k), tc[2], "location", j)
                            = PointsOf(h.before, tc[2], "location", j)
            /\ \A i \in valid :
                  LET label == tc[3][i + 1] IN
                  /\ \E r \in ReportsOn(h, i) : r[2] = "Mapping" /\ r[4] = label
                  /\ HasCurve(After(k), tc[2], "location", LabelAxis(label))
                  /\ (\A i2 \in valid \ {i} : LabelAxis(tc[3][i2 + 1]) # LabelAxis(label)) =>
                        SeqRange(Scaled(PointsOf(h.before, tc[1], "location", i),
                                        LabelSign(label)))
                            \subseteq SeqRange(Coords(PointsOf(After(k), tc[2], "location",
                                                              LabelAxis(label))))

\* a remap-all transferred a pair whose source has points on an axis with a
\* label outside the table and on two axes with valid labels
C17_Witness ==
    \E k \in 1..Len(hist) : \E tc \in TransferCases(hist[k]) :
        /\ IsRemap(hist[k])
        /\ Cardinality(TransferCases(hist[k])) = 1
        /\ \E i \in InvalidAxes(hist[k], tc) :
              PointsOf(hist[k].before, tc[1], "location", i) # <<>>
        /\ Cardinality(ValidAxes(hist[k], tc)) = 2
        /\ \A i \in ValidAxes(hist[k], tc) :
              PointsOf(hist[k].before, tc[1], "location", i) # <<>>

\* the same for a copy
C17_WitnessCopy ==
    \E k \in 1..Len(hist) : \E tc \in TransferCases(hist[k]) :
        /\ IsCopy(hist[k])
        /\ \E i \in InvalidAxes(hist[k], tc) :
              PointsOf(hist[k].before, tc[1], "location", i) # <<>>
        /\ Cardinality(ValidAxes(hist[k], tc)) = 2

----------------------------------------------------------------------------
(* C18: what a transfer leaves alone *)

\* the bones the transfers of a finished call wrote to
TargetsOf(h) == {tc[2] : tc \in TransferCases(h)}

\* the F-Curve may be written by the call: a location channel of a target
Writable(h, c) == c.data_path[2] = "location" /\ c.data_path[1] \in TargetsOf(h)

\* C18 -- Transfer frame: a copy from source bone S to target bone T changes
\* only location channels of T; every channel of S (all properties and
\* axes), every rotation and scale channel of T, and every channel of any
\* other bone keeps the same points as before the copy, and no such channel
\* is removed or created.  The same for the transfers of remap-all.
C18_TransferFrame ==
    \A k \in 1..Len(hist) :
        LET h == hist[k] IN
        TransferCases(h) # {} =>
        /\ Len(After(k)) >= Len(h.before)
        /\ \A n \in 1..Len(h.before) :
              IF Writable(h, h.before[n])
              THEN /\ After(k)[n].data_path = h.before[n].data_path
                   /\ After(k)[n].array_index = h.before[n].array_index
              ELSE After(k)[n] = h.before[n]
        /\ \A n \in (Len(h.before) + 1)..Len(After(k)) : Writable(h, After(k)[n])

\* a copy changed a location channel of its target while the source has
\* points on location and on another property, the target has a channel of
\* another property and a third bone has a location channel
C18_Witness ==
    \E k \in 1..Len(hist) :
        /\ IsCopy(hist[k])
        /\ \E n \in 1..Len(hist[k].before) :
              Writable(hist[k], hist[k].before[n]) /\ After(k)[n] # hist[k].before[n]
        /\ Len(After(k)) > Len(hist[k].before)
        /\ \E i \in 0..2 : /\ HasCurve(hist[k].before, SourceBone, "location", i)
                           /\ PointsOf(hist[k].before, SourceBone, "location", i) # <<>>
        /\ \E c \in SeqRange(hist[k].before) :
              c.data_path[1] = SourceBone /\ c.data_path[2] # "location"
                  /\ c.keyframe_points # <<>>
        /\ \E c \in SeqRange(hist[k].before) :
              c.data_path[1] = TargetBone /\ c.data_path[2] # "location"
                  /\ c.keyframe_points # <<>>
        /\ \E c \in SeqRange(hist[k].before) :
              c.data_path[1] \notin {SourceBone, TargetBone} /\ c.data_path[2] = "location"
                  /\ c.keyframe_points # <<>>

----------------------------------------------------------------------------
(* C19, C20: invariants of the Action *)

Unique(fcs) ==
    \A m, n \in 1..Len(fcs) :
        (fcs[m].data_path = fcs[n].data_path /\ fcs[m].array_index = fcs[n].array_index)
            => m = n

\* C19 -- Channel uniqueness invariant: starting from an Action in which no
\* two channels share the same (data path, axis index), after any sequence
\* of copy, copy-all-axes, remap-all, flip and swap operations no two
\* channels share the same (data path, axis index).
C19_ChannelUniqueness ==
    (hist = <<>> \/ Unique(hist[1].before)) => Unique(fcurves)

\* two operators have run, the first a copy or remap-all that created a
\* channel and the second one that finished and found it
C19_Witness ==
    /\ Len(hist) >= 2
    /\ Unique(hist[1].before)
    /\ hist[1].op \in {"copy_bone_keyframes", "copy_all_axes_keyframes", "remap_all_bones"}
    /\ Len(After(1)) > Len(hist[1].before)
    /\ hist[2].status = "FINISHED"
    /\ hist[2].op # hist[1].op
    /\ After(2) # After(1)

StrictlyIncreasing(kps) ==
    \A m, n \in 1..Len(kps) : m < n => time_of(kps[m]) < time_of(kps[n])

\* C20 -- Time-ordering invariant: after any sequence of copy, remap-all,
\* flip and swap operations, the points of every channel are ordered by
\* strictly increasing time (no two points of one channel share a time),
\* including when a copy with replaceAll unset merges source points into a
\* target channel that already holds points.
C20_TimeOrdering ==
    \A n \in 1..Len(fcurves) : StrictlyIncreasing(fcurves[n].keyframe_points)

\* a copy with replace_all unset put a point between two points of a target
\* channel, and overwrote a point of a target channel, and an operator ran
\* after it
C20_Witness ==
    /\ Len(hist) >= 2
    /\ hist[2].status = "FINISHED"
    /\ IsCopy(hist[1])
    /\ ~ReplaceAllOf(hist[1])
    /\ \E n \in 1..Len(hist[1].before) :
          LET old == TimesOf(hist[1].before[n].keyframe_points)
              new == TimesOf(After(1)[n].keyframe_points)
          IN  \E t \in new \ old : \E a, b \in old : a < t /\ t < b
    /\ \E n \in 1..Len(hist[1].before) :
          \E p \in SeqRange(hist[1].before[n].keyframe_points),
             q \in SeqRange(After(1)[n].keyframe_points) :
              time_of(p) = time_of(q) /\ value_of(p) # value_of(q)

----------------------------------------------------------------------------
(* C21: where channels come from *)

Key(c) == <<c.data_path, c.array_index>>

\* the bones a call may write to
WriteTargets(h) ==
    IF h.op \in {"copy_bone_keyframes", "copy_all_axes_keyframes"} THEN {TargetBone}
    ELSE IF h.op = "remap_all_bones" THEN {pr[2] : pr \in PairsOf(h)}
    ELSE {}

\* C21 -- Channels are created only by a transfer write: flip and swap never
\* add a channel to the Action, and a copy or remap-all adds only location
\* channels of a target bone, each one only when no channel with that (data
\* path, axis index) exists; no operation ever removes a channel.
C21_ChannelCreation ==
    \A k \in 1..Len(hist) :
        LET h == hist[k]
            b == h.before
            a == After(k)
            created == (Len(b) + 1)..Len(a)
        IN  /\ Len(a) >= Len(b)
            /\ \A n \in 1..Len(b) : Key(a[n]) = Key(b[n])
            /\ h.op \in {"flip_keyframe_axis", "swap_keyframes"} => created = {}
            /\ \A n \in created :
                  /\ a[n].data_path[2] = "location"
                  /\ a[n].data_path[1] \in WriteTargets(h)
                  /\ \A m \in 1..Len(a) : m # n => Key(a[m]) # Key(a[n])

\* a copy created a location channel of its target and wrote into another
\* that was there, and then a flip or a swap finished and changed points
C21_Witness ==
    /\ Len(hist) = 2
    /\ IsCopy(hist[1])
    /\ Len(After(1)) > Len(hist[1].before)
    /\ \E n \in 1..Len(hist[1].before) :
          /\ hist[1].before[n].data_path = <<TargetBone, "location">>
          /\ After(1)[n] # hist[1].before[n]
    /\ IsFlip(hist[2]) \/ IsSwap(hist[2])
    /\ After(2) # After(1)

----------------------------------------------------------------------------
(* C22: remap-all against copy *)

\* the pairs a remap-all went through, in the order it took them
PairSeq(h) ==
    LET IsPair(e) == e[1] = "pair" IN SelectSeq(h.trace, IsPair)

\* the selected bones that are the target of a pair, in selection order
PairedTargets ==
    LET IsTarget(b) == \E pr \in RulePairs : pr[2] = b
    IN  SelectSeq(ctx.selected_pose_bones, IsTarget)

\* one copy for each pair from position n on, each on the selection of the
\* pair with the target active
RECURSIVE CopyEach(_, _, _)
CopyEach(fcs, prs, n) ==
    IF n > Len(prs) THEN fcs
    ELSE LET c == [ctx EXCEPT !.selected_pose_bones = <<prs[n][2], prs[n][3]>>,
                              !.active_pose_bone = prs[n][3]]
             r == copy_bone_keyframes_execute(fcs, c, scene, "", prs[n][4])
         IN  IF r.status = "FINISHED" THEN CopyEach(r.fcurves, prs, n + 1) ELSE <<>>

\* C22 -- Remap-all is the transfer primitive applied per pair: for every
\* formed pair (source, target), processed in selection order, the effect of
\* remap-all on the Action's channels equals the effect of one copy from
\* source to target with the profile selected for that pair, and each pair is
\* processed exactly once.
C22_RemapIsCopyPerPair ==
    \A k \in 1..Len(hist) :
        IsRemap(hist[k]) =>
        LET prs == PairSeq(hist[k]) IN
        /\ Len(prs) = Len(PairedTargets)
        /\ \A n \in 1..Len(prs) :
              /\ prs[n][3] = PairedTargets[n]
              /\ <<prs[n][2], prs[n][3]>> \in RulePairs
        /\ After(k) = CopyEach(hist[k].before, prs, 1)

\* a remap-all went through two pairs, each with points to copy, created a
\* channel and changed one that was there
C22_Witness ==
    \E k \in 1..Len(hist) :
        /\ IsRemap(hist[k])
        /\ Len(PairSeq(hist[k])) = 2
        /\ \A pr \in PairsOf(hist[k]) :
              \E i \in 0..2 : /\ HasCurve(hist[k].before, pr[1], "location", i)
                              /\ PointsOf(hist[k].before, pr[1], "location", i) # <<>>
        /\ Len(After(k)) > Len(hist[k].before)
        /\ \E n \in 1..Len(hist[k].before) : After(k)[n] # hist[k].before[n]

----------------------------------------------------------------------------
(* C23: a source channel without points *)

\* the source axes of a copy whose channel is there, holds no point and has
\* a label of the table that no other source channel shares the target of
EmptyAxes(h) ==
    {i \in SourceAxes(h) :
        /\ PointsOf(h.before, SourceBone, "location", i) = <<>>
        /\ AloneOnTarget(h, i)}

\* the target channel of source axis i holds after call k what it held before
TargetKept(k, i) ==
    LET j == LabelAxis(LabelsOf(hist[k])[i + 1]) IN
    HasCurve(hist[k].before, TargetBone, "location", j) =>
        PointsOf(After(k), TargetBone, "location", j)
            = PointsOf(hist[k].before, TargetBone, "location", j)

\* the copy warned about axis i and went on with the other axes
WarnedAndWentOn(k, i) ==
    /\ <<"WARNING", "No keyframe data", i>> \in SeqRange(hist[k].reports)
    /\ \A i2 \in SourceAxes(hist[k]) \ {i} :
          LabelsOf(hist[k])[i2 + 1] \in SixLabels => CopiedAxis(k, i2)

\* C23 -- Empty source channel is skipped without touching the target: when
\* the source location channel for an axis exists but holds no points, the
\* copy reports a warning for that axis, does not clear or otherwise modify
\* the points of the mapped target channel (also when replaceAll is set), and
\* continues with the remaining axes.
C23_EmptySourceSkipped ==
    \A k \in 1..Len(hist) :
        IsCopy(hist[k]) =>
        \A i \in EmptyAxes(hist[k]) : WarnedAndWentOn(k, i) /\ TargetKept(k, i)

\* with replace_all unset the statement holds
C23_ReplaceAllUnset ==
    \A k \in 1..Len(hist) :
        (IsCopy(hist[k]) /\ ~ReplaceAllOf(hist[k])) =>
        \A i \in EmptyAxes(hist[k]) : WarnedAndWentOn(k, i) /\ TargetKept(k, i)

\* with replace_all set the copy warns and goes on, and the target channel
\* is left without points
C23_ReplaceAllSet ==
    \A k \in 1..Len(hist) :
        (IsCopy(hist[k]) /\ ReplaceAllOf(hist[k])) =>
        \A i \in EmptyAxes(hist[k]) :
            /\ WarnedAndWentOn(k, i)
            /\ PointsOf(After(k), TargetBone, "location",
                        LabelAxis(LabelsOf(hist[k])[i + 1])) = <<>>

\* a copy with replace_all set met a source channel without points whose
\* target channel held points, and copied another axis
C23_Witness ==
    \E k \in 1..Len(hist) :
        /\ IsCopy(hist[k])
        /\ ReplaceAllOf(hist[k])
        /\ \E i \in EmptyAxes(hist[k]) :
              LET j == LabelAxis(LabelsOf(hist[k])[i + 1]) IN
              /\ HasCurve(hist[k].before, TargetBone, "location", j)
              /\ PointsOf(hist[k].before, TargetBone, "location", j) # <<>>
              /\ PointsOf(After(k), TargetBone, "location", j) = <<>>
              /\ \E i2 \in SourceAxes(hist[k]) \ {i} :
                    PointsOf(hist[k].before, SourceBone, "location", i2) # <<>>

\* the same with replace_all unset: the target channel kept its points
C23_WitnessUnset ==
    \E k \in 1..Len(hist) :
        /\ IsCopy(hist[k])
        /\ ~ReplaceAllOf(hist[k])
        /\ \E i \in EmptyAxes(hist[k]) :
              LET j == LabelAxis(LabelsOf(hist[k])[i + 1]) IN
              /\ HasCurve(hist[k].before, TargetBone, "location", j)
              /\ PointsOf(hist[k].before, TargetBone, "location", j) # <<>>

----------------------------------------------------------------------------
(* C24: the axis argument of copy *)

\* C24 -- The axis argument does not select an axis: for any two values of
\* the operator's axis parameter ("X", "Y", "Z" or empty),
\* copy_bone_keyframes run from the same initial state with the same
\* selection and configuration produces the same final channels - every
\* existing source location axis is copied on each call, not only the named
\* one.
C24_AxisArgumentIgnored ==
    \A k \in 1..Len(hist) :
        LET h == hist[k] IN
        IsCopyCall(h) =>
        /\ \A axis \in AxisArgs :
              LET r == copy_bone_keyframes_execute(h.before, ctx, scene, axis, h.args[2])
              IN  r.fcurves = After(k) /\ r.status = h.status
        /\ IsCopy(h) =>
              \A i \in SourceAxes(h) :
                  LabelsOf(h)[i + 1] \in SixLabels => CopiedAxis(k, i)

\* a copy called for axis "X" changed the target channels mapped from the
\* source's Y and Z channels
C24_Witness ==
    \E k \in 1..Len(hist) :
        /\ IsCopy(hist[k])
        /\ hist[k].args[1] = "X"
        /\ DistinctAxes(LabelsOf(hist[k]))
        /\ \A i \in {1, 2} :
              LET j == LabelAxis(LabelsOf(hist[k])[i + 1]) IN
              /\ HasCurve(hist[k].before, SourceBone, "location", i)
              /\ PointsOf(hist[k].before, SourceBone, "location", i) # <<>>
              /\ HasCurve(hist[k].before, TargetBone, "location", j) =>
                    PointsOf(After(k), TargetBone, "location", j)
                        # PointsOf(hist[k].before, TargetBone, "location", j)

----------------------------------------------------------------------------
(* C25: copy run again *)

\* the F-Curves after one more copy with the arguments of h
CopyAgain(fcs, h) ==
    copy_bone_keyframes_execute(fcs, ctx, scene, h.args[1], h.args[2]).fcurves

IsCopyAll(h) == h.op = "copy_all_axes_keyframes" /\ h.status = "FINISHED"

\* C25 -- Copy is idempotent, so copy-all-axes equals one copy: for any axis
\* labels and either replaceAll value, running copy_bone_keyframes twice (or
\* three times, as copy_all_axes_keyframes does) from the same selection
\* leaves the Action's channels in the same state as running it once.
C25_CopyIdempotent ==
    \A k \in 1..Len(hist) :
        LET h == hist[k] IN
        /\ IsCopy(h) =>
              /\ CopyAgain(After(k), h) = After(k)
              /\ CopyAgain(CopyAgain(After(k), h), h) = After(k)
        /\ IsCopyAll(h) => After(k) = CopyAgain(h.before, h)

\* a copy-all-axes with replace_all unset and two labels for one target axis
\* changed a target channel that held points
C25_Witness ==
    \E k \in 1..Len(hist) :
        /\ IsCopyAll(hist[k])
        /\ ~ReplaceAllOf(hist[k])
        /\ \E i, i2 \in SourceAxes(hist[k]) :
              /\ i # i2
              /\ {LabelsOf(hist[k])[i + 1], LabelsOf(hist[k])[i2 + 1]} \subseteq SixLabels
              /\ LabelAxis(LabelsOf(hist[k])[i + 1]) = LabelAxis(LabelsOf(hist[k])[i2 + 1])
              /\ PointsOf(hist[k].before, SourceBone, "location", i) # <<>>
              /\ PointsOf(hist[k].before, SourceBone, "location", i2) # <<>>
        /\ \E n \in 1..Len(hist[k].before) :
              /\ hist[k].before[n].keyframe_points # <<>>
              /\ After(k)[n] # hist[k].before[n]

\* a copy with replace_all set changed a target channel that held points
C25_WitnessCopy ==
    \E k \in 1..Len(hist) :
        /\ IsCopy(hist[k])
        /\ ReplaceAllOf(hist[k])
        /\ \E n \in 1..Len(hist[k].before) :
              /\ hist[k].before[n].keyframe_points # <<>>
              /\ After(k)[n] # hist[k].before[n]

----------------------------------------------------------------------------
(* C26: the suffix left empty *)

\* C26 -- Empty suffix forms no pair: when the configured suffix is the
\* empty string (its registered default), remap-all called on an armature
\* with bones selected forms no pair for any selection and ends Cancelled
\* with 'No valid bone pairs found', without modifying any channel.
C26_EmptySuffixNoPair ==
    \A k \in 1..Len(hist) :
        (IsRemapCall(hist[k]) /\ scene.primary_suffix = <<>>) =>
        /\ PairsOf(hist[k]) = {}
        /\ hist[k].status = "CANCELLED"
        /\ hist[k].reports = <<<<"WARNING", "No valid bone pairs found.">>>>
        /\ After(k) = hist[k].before

\* a remap-all with the empty suffix was called with a bone and the bone of
\* its name plus "k" both selected, the first with points on location
C26_Witness ==
    \E k \in 1..Len(hist) :
        /\ IsRemapCall(hist[k])
        /\ scene.primary_suffix = <<>>
        /\ hist[k].status = "CANCELLED"
        /\ \E S \in Selected :
              /\ S \o <<"k">> \in Selected
              /\ \E i \in 0..2 : /\ HasCurve(hist[k].before, S, "location", i)
                                 /\ PointsOf(hist[k].before, S, "location", i) # <<>>

----------------------------------------------------------------------------
(* C27: two source axes with labels for one target axis *)

\* the place in the Action of the source channel of axis i
PlaceOf(h, tc, i) == CHOOSE n \in Matches(h.before, tc[1], "location", i) : TRUE

\* the source axes of a transfer whose label resolves to target axis j
OntoAxis(h, tc, j) == {i \in ValidAxes(h, tc) : LabelAxis(tc[3][i + 1]) = j}

\* of these the one whose channel the loop comes to last
LastOnto(h, tc, j) ==
    CHOOSE i \in OntoAxis(h, tc, j) :
        \A i2 \in OntoAxis(h, tc, j) : PlaceOf(h, tc, i2) <= PlaceOf(h, tc, i)

\* C27 -- Colliding axis labels with replaceAll set: when two source axes
\* resolve to the same target axis index and replaceAll is true, the clear
\* performed for the later-processed source axis erases the points copied
\* from the earlier one, so after the copy that target channel holds only
\* the scaled points of the later-processed source axis.
C27_CollidingLabelsReplaceAll ==
    \A k \in 1..Len(hist) : \A tc \in TransferCases(hist[k]) :
        LET h == hist[k] IN
        (tc[4] /\ Cardinality(TransferCases(h)) = 1) =>
        \A j \in 0..2 :
            Cardinality(OntoAxis(h, tc, j)) >= 2 =>
            LET last == LastOnto(h, tc, j) IN
            /\ HasCurve(After(k), tc[2], "location", j)
            /\ Coords(PointsOf(After(k), tc[2], "location", j))
                  = Scaled(PointsOf(h.before, tc[1], "location", last),
                           LabelSign(tc[3][last + 1]))

\* a copy with replace_all set had two source channels for one target axis,
\* the earlier in the Action with a point on a frame the later has none on,
\* and the target channel held points
C27_Witness ==
    \E k \in 1..Len(hist) : \E tc \in TransferCases(hist[k]) :
        /\ IsCopy(hist[k])
        /\ tc[4]
        /\ \E j \in 0..2 :
              /\ Cardinality(OntoAxis(hist[k], tc, j)) >= 2
              /\ HasCurve(hist[k].before, tc[2], "location", j)
              /\ PointsOf(hist[k].before, tc[2], "location", j) # <<>>
              /\ LET last == LastOnto(hist[k], tc, j) IN
                 /\ PointsOf(hist[k].before, tc[1], "location", last) # <<>>
                 /\ \E i \in OntoAxis(hist[k], tc, j) \ {last} :
                       ~(TimesOf(PointsOf(hist[k].before, tc[1], "location", i))
                            \subseteq
                         TimesOf(PointsOf(hist[k].before, tc[1], "location", last)))

\* the same where the channel the loop comes to last is the one of the
\* lower axis
C27_WitnessLowerLast ==
    \E k \in 1..Len(hist) : \E tc \in TransferCases(hist[k]) :
        /\ IsCopy(hist[k])
        /\ tc[4]
        /\ \E j \in 0..2 :
              /\ Cardinality(OntoAxis(hist[k], tc, j)) >= 2
              /\ \E i \in OntoAxis(hist[k], tc, j) : LastOnto(hist[k], tc, j) < i
              /\ PointsOf(After(k), tc[2], "location", j) # <<>>

----------------------------------------------------------------------------
(* C28: the loop over a collection that grows *)

\* the reports that open the handling of one F-Curve taken up as a source
TakenUp(h) ==
    {n \in 1..Len(h.reports) :
        h.reports[n][2] \in {"Mapping", "Invalid axis mapping",
                             "Skipping unexpected axis index"}}

\* the source channels present before the call, one entry per pair
SourceChannels(h) ==
    {x \in {<<tc[1], tc[2], n>> : tc \in TransferCases(h), n \in 1..Len(h.before)} :
        h.before[x[3]].data_path = <<x[1], "location">>}

\* the call passes the checks at the head of its operator
PassesChecks(h) ==
    /\ ctx.object_type = "ARMATURE"
    /\ ctx.animation = "ACTION"
    /\ IF h.op = "copy_bone_keyframes"
       THEN Len(ctx.selected_pose_bones) = 2 /\ ctx.active_pose_bone \in Selected
       ELSE scene.primary_suffix # <<>> /\ RulePairs # {}

\* C28 -- Copy and remap-all terminate although they add channels to the
\* collection they iterate: every channel created during the loop over the
\* Action's channels belongs to the target bone, never matches the source
\* bone's location path, and so is never processed as a source; each source
\* channel present at the start is processed at most once per pair and the
\* operation reaches Finished.
C28_LoopOverGrowingCollection ==
    \A k \in 1..Len(hist) :
        LET h == hist[k] IN
        h.op \in {"copy_bone_keyframes", "remap_all_bones"} =>
        /\ PassesChecks(h) => h.status = "FINISHED"
        /\ h.status = "FINISHED" =>
              /\ \A n \in (Len(h.before) + 1)..Len(After(k)) :
                    \E tc \in TransferCases(h) :
                        /\ After(k)[n].data_path[1] = tc[2]
                        /\ After(k)[n].data_path[1] # tc[1]
              /\ Cardinality(TakenUp(h)) = Cardinality(SourceChannels(h))
              /\ \A tc \in TransferCases(h) : \A i \in 0..2 :
                    Cardinality(TransferCases(h)) = 1 =>
                    Cardinality({n \in TakenUp(h) : h.reports[n][3] = i})
                        = IF HasCurve(h.before, tc[1], "location", i) THEN 1 ELSE 0

\* a remap-all and a copy each created channels of the target while walking
\* the Action, each in some behaviour
C28_Witness ==
    \E k \in 1..Len(hist) :
        /\ IsRemap(hist[k])
        /\ Len(After(k)) >= Len(hist[k].before) + 2
        /\ Cardinality(TakenUp(hist[k])) = 3

C28_WitnessCopy ==
    \E k \in 1..Len(hist) :
        /\ IsCopy(hist[k])
        /\ Len(After(k)) >= Len(hist[k].before) + 2
        /\ Cardinality(TakenUp(hist[k])) = 3

====
